---- MODULE Spec2Model ----
(***************************************************************************)
(* Model of the data-synchronisation core of the Hypercave front end:      *)
(* the rate limiter and gatewayFetch (gateway.js), the two caches          *)
(* (cache.js) and the resolvers built on them.                             *)
(*                                                                         *)
(* JavaScript runs one task at a time; a task gives up control only at an  *)
(* await.  Every action below is therefore one run-to-completion segment   *)
(* of the code: from a call or a resumption up to the next await that      *)
(* really suspends (a timer or a network round trip).                      *)
(***************************************************************************)
EXTENDS Integers, Sequences, FiniteSets, TLC

\* ------------------------------------------------------------------ bounds
\* CONFIG.rateLimit.maxRequests and CONFIG.rateLimit.windowMs, scaled down
\* (the shipped values are 10 and 1000); the code reads them only through
\* comparisons and one subtraction, so the scale keeps every branch.
maxRequests == 1
windowMs == 2
\* Number of concurrent logical tasks and of operations each may start.
NumTasks == 2
MaxRuns == 2
\* Epochs the status endpoint may report: 0..MaxEpoch.
MaxEpoch == 1
\* Last instant of the simulated clock (Date.now() starts at 1).
MaxNow == 5

Tasks == 1..NumTasks
Epochs == 0..MaxEpoch

\* Finite time-to-live values passed to the caches: 1..MaxTtl ms.
MaxTtl == 2
\* Longest address list handed to getResourceMetadata.
MaxAddrs == 2
\* Most items on one page of a listing, and most pages requested by one
\* pagination loop.
MaxPageItems == 1
\* Most elements of the structured return of a receipt.
MaxElements == 2
\* Most calls of openModal and of handleLookup in flight, and most
\* transactions submitted.
MaxOpens == 1
MaxLooks == 1
MaxTx == 2
\* Most resources moved by one transaction.
MaxMoved == 1
\* Most asynchronous calls in flight at once; a lookup is in flight alone.
MaxPending == 2
MaxPages == 3
\* Tasks that call the paginated resolvers in PageSpec.
NumPagers == 1
Pagers == 1..NumPagers

\* Resource addresses and accounts the front end deals with.
resource_a == "resource_rdx1tknxxxxxxxxxxxxxxxxxxxx_a"
resource_b == "resource_rdx1tknxxxxxxxxxxxxxxxxxxxx_b"
Addrs == {resource_a, resource_b}
Accounts == {"account_1", "account_2"}

\* ------------------------------------------------------------- JS values
\* A JavaScript value is a record with a tag.
Null == [tag |-> "null"]
Undefined == [tag |-> "undefined"]
Infinity == [tag |-> "Infinity"]
Num(n) == [tag |-> "number", n |-> n]
Str(s) == [tag |-> "string", s |-> s]
Obj(v) == [tag |-> "object", v |-> v]
Arr(seq) == [tag |-> "array", items |-> seq]

\* ToBoolean, as `if (x)`, `!x` and `while (x)` apply it.
Truthy(x) ==
  CASE x.tag = "null" -> FALSE
    [] x.tag = "undefined" -> FALSE
    [] x.tag = "string" -> x.s # ""
    [] x.tag = "number" -> x.n # 0
    [] OTHER -> TRUE

\* `x || y` and `x ?? y`
OrElse(x, y) == IF Truthy(x) THEN x ELSE y
Nullish(x, y) == IF x \in {Null, Undefined} THEN y ELSE x

Max(a, b) == IF a >= b THEN a ELSE b

NoReq == [endpoint |-> "none"]
NoResp == [kind |-> "none"]
NoResult == [status |-> "none"]
NoParse == [status |-> "none"]
NoCall == [pc |-> "idle"]
Done == [pc |-> "done"]

VARIABLES
  now,          \* Date.now()
  tokens,       \* rateLimiter.tokens
  lastRefill,   \* rateLimiter.lastRefill
  pc,           \* pc[t]: where task t stands inside gatewayFetch
  wakeAt,       \* wakeAt[t]: instant at which t's setTimeout is due
  req,          \* req[t]: the request t's gatewayFetch was called with
  resp,         \* resp[t]: what t's gatewayFetch returned or threw
  op,           \* op[t]: the exported function task t is running
  runs,         \* runs[t]: operations t has started so far
  result,       \* result[t]: what t's last finished operation returned/threw
  results,      \* results[t]: `results` of t's getResourceMetadata call
  ttlCfg,       \* CONFIG.cacheTtl.resourceMetadata
  \* history variables (written, never read, by the actions)
  calls,        \* calls[t]: gatewayFetch calls made by t's operation so far
  inWindow,     \* acquisitions completed since the last reset point
  recent,       \* recent.at[k]: acquisitions completed at instant now - k,
                \* for the last windowMs + 1 instants (kept when recent.on)
  acqCount,     \* acqCount[t]: acquisitions completed for t's operation
  httpCount,    \* httpCount[t]: HTTP requests started by t's operation
  windowEndAtCall, \* lastRefill + windowMs as t's acquire() call found it,
                   \* when it found the window's budget used up; else 0
  resetSeen,    \* resetSeen[t]: a reset happened since that call
  early,        \* early[t]: t's acquisition completed before that window end
  slept,        \* slept[t]: t's current acquire() suspended at least once
  \* cache.js
  storage,      \* localStorage: storage key -> stored text
  data,         \* sessionCache.data: key -> {value, expiry}
  \* history variables of the caches
  probe,        \* the cache and the key the callers of CacheSpec work on
  lastOp,       \* the last cache call: what it was and what it returned
  lastSet,      \* lastSet[c][k]: the last set of k in cache c that no
                \* remove or clear followed
  \* locals of the paginated resolvers (getAccountFungibles,
  \* getAccountNonFungibles, getAllCaveTokens)
  cacheKey,     \* cacheKey[t]
  cursor,       \* cursor[t]
  items,        \* items[t]: `items` / `collections` / `resourceAddresses`
  pageHist,     \* history: pageHist[t] describes the pagination loop of t's
                \* last resolver call that missed the session cache
  \* parseBalancesFromReceipt applied to an input
  parseIn,      \* the receipt and the resourceAddresses it is given
  parseOut,     \* what it returned
  \* main.js
  currentAccount, \* null or the active account
  allAccounts,    \* the accounts the wallet shared
  opens,          \* openModal calls awaiting the resolvers
  txs,            \* handleTransaction calls awaiting the wallet
  looks,          \* handleLookup calls awaiting the Gateway
  \* ModalUI of ui.js
  mode,           \* this.mode
  shown,          \* the modal is not hidden
  selectedNftData,
  selectedResourcesList,
  submitDisabled, \* this.submitBtn.disabled
  hasLookedUp,
  caveBalancesData,
  previewedFor,   \* history: the NFT whose vault the snapshot was previewed for
  lastRecon,      \* history: the last reconciliation after a transaction
  \* history variables of getResourceMetadata
  askedAtCall,  \* askedAtCall[t]: the addresses t's call was given
  readableAtCall, \* readableAtCall[t]: addresses asked for that the durable
                  \* cache held unexpired when t's call began
  written,      \* addresses resolved from the Gateway and written to the
                \* durable cache so far
  writtenAtCall \* writtenAtCall[t]: `written` when t's call began

rlVars == <<tokens, lastRefill>>
gwVars == <<pc, wakeAt, req, resp>>
opVars == <<op, runs, result>>
metaVars == <<askedAtCall, results, ttlCfg, readableAtCall, written, writtenAtCall>>
histVars == <<calls, inWindow, recent, acqCount, httpCount, windowEndAtCall,
              resetSeen, early, slept>>
cacheVars == <<storage, data, probe, lastOp, lastSet>>
gatewayVars == <<rlVars, gwVars, opVars, histVars>>
pageVars == <<cacheKey, cursor, items, pageHist>>
resolverVars == <<metaVars, pageVars>>
mainVars == <<currentAccount, allAccounts, opens, txs, looks>>
modalVars == <<mode, shown, selectedNftData, selectedResourcesList,
               submitDisabled, hasLookedUp, caveBalancesData, previewedFor>>
appVars == <<mainVars, modalVars, lastRecon>>
uiVars == <<parseIn, parseOut, appVars>>
nonGatewayVars == <<cacheVars, metaVars, pageVars, uiVars>>
vars == <<now, gatewayVars, cacheVars, metaVars, pageVars, uiVars>>

\* ----------------------------------------------------------- rateLimiter
\* `elapsed >= CONFIG.rateLimit.windowMs`
ResetDueEarly(elapsed) == elapsed >= windowMs - 1
ResetDue(elapsed) == elapsed >= windowMs

\* `this.tokens = CONFIG.rateLimit.maxRequests`
RefillStale(tk) == tk
Refill(tk) == maxRequests

\* `this.tokens <= 0`
MustWaitOffByOne(tk) == tk < 0
MustWait(tk) == tk <= 0

\* `CONFIG.rateLimit.windowMs - elapsed`
WaitTimeShort(elapsed) == windowMs - elapsed - 1
WaitTime(elapsed) == windowMs - elapsed

\* setTimeout(resolve, waitTime): due waitTime ms from now, a negative delay
\* counting as 0.
TimerDue(waitTime) == now + Max(0, waitTime)

\* The log of the acquisitions of the last windowMs + 1 instants: switched
\* off, it stays as it is; switched on, an acquisition completed now is
\* counted at age 0 and a millisecond that passes ages every count by one.
EmptyLog(on) == [on |-> on, at |-> [k \in 0..windowMs |-> 0]]
Logged(log) == IF log.on THEN [log EXCEPT !.at[0] = @ + 1] ELSE log
Aged(log) ==
  IF log.on
  THEN [log EXCEPT !.at = [k \in 0..windowMs |-> IF k = 0 THEN 0 ELSE log.at[k - 1]]]
  ELSE log

\* One run of the body of acquire() for task t, from `const now` to either
\* the await on the timer or `return true`.  `first` tells the call made by
\* gatewayFetch from the retry `return this.acquire()`.
AcquireBody(t, first) ==
  LET elapsed == now - lastRefill
      reset   == ResetDue(elapsed)
      tk      == IF reset THEN Refill(tokens) ELSE tokens
      used    == IF reset THEN 0 ELSE inWindow
      full    == first /\ inWindow >= maxRequests
  IN  /\ lastRefill' = IF reset THEN now ELSE lastRefill
      /\ windowEndAtCall' =
           IF first
           THEN [windowEndAtCall EXCEPT ![t] = IF full THEN lastRefill + windowMs ELSE 0]
           ELSE windowEndAtCall
      /\ resetSeen' =
           [u \in Tasks |->
              IF reset THEN TRUE
              ELSE IF u = t /\ first THEN ~full
              ELSE resetSeen[u]]
      /\ IF MustWait(tk)
         THEN /\ tokens' = tk
              /\ pc' = [pc EXCEPT ![t] = "sleep"]
              /\ wakeAt' = [wakeAt EXCEPT ![t] = TimerDue(WaitTime(elapsed))]
              /\ inWindow' = used
              /\ recent' = recent
              /\ slept' = [slept EXCEPT ![t] = TRUE]
              /\ UNCHANGED <<acqCount, early>>
         ELSE /\ tokens' = tk - 1
              /\ pc' = [pc EXCEPT ![t] = "acquired"]
              /\ inWindow' = used + 1
              /\ recent' = Logged(recent)
              /\ acqCount' = [acqCount EXCEPT ![t] = @ + 1]
              /\ early' = [early EXCEPT ![t] = now < windowEndAtCall'[t]]
              /\ slept' = [slept EXCEPT ![t] = IF first THEN FALSE ELSE @]
              /\ wakeAt' = [wakeAt EXCEPT ![t] = 0]

\* --------------------------------------------------------- gatewayFetch
\* gatewayFetch(endpoint, body) is entered: `await rateLimiter.acquire()`.
GatewayFetchUngated(t, r) ==
  /\ req' = [req EXCEPT ![t] = r]
  /\ resp' = [resp EXCEPT ![t] = NoResp]
  /\ calls' = [calls EXCEPT ![t] = @ + 1]
  /\ pc' = [pc EXCEPT ![t] = "acquired"]
  /\ UNCHANGED <<rlVars, wakeAt, inWindow, recent, acqCount, windowEndAtCall,
                 resetSeen, early, slept>>

GatewayFetchBegin(t, r) ==
  /\ req' = [req EXCEPT ![t] = r]
  /\ resp' = [resp EXCEPT ![t] = NoResp]
  /\ calls' = [calls EXCEPT ![t] = @ + 1]
  /\ AcquireBody(t, TRUE)

\* The timer of a suspended acquire() fires: `return this.acquire()`.
AcquireRetry(t) ==
  /\ pc[t] = "sleep"
  /\ now >= wakeAt[t]
  /\ AcquireBody(t, FALSE)
  /\ UNCHANGED <<now, req, resp, calls, httpCount, opVars>>
  /\ UNCHANGED nonGatewayVars

\* acquire() has resolved: gatewayFetch resumes and calls fetch().
StartFetch(t) ==
  /\ pc[t] = "acquired"
  /\ pc' = [pc EXCEPT ![t] = "fetching"]
  /\ httpCount' = [httpCount EXCEPT ![t] = @ + 1]
  /\ windowEndAtCall' = [windowEndAtCall EXCEPT ![t] = 0]
  /\ resetSeen' = [resetSeen EXCEPT ![t] = TRUE]
  /\ slept' = [slept EXCEPT ![t] = FALSE]
  /\ UNCHANGED <<now, rlVars, wakeAt, req, resp, calls, inWindow, recent, acqCount,
                 early, opVars>>
  /\ UNCHANGED nonGatewayVars

\* What the Gateway may answer, with a success status, to request r.
Range(seq) == { seq[i] : i \in DOMAIN seq }

\* The elements of a list in order of first occurrence.
RECURSIVE Distinct(_)
Distinct(seq) ==
  IF seq = <<>> THEN <<>>
  ELSE LET front == Distinct(SubSeq(seq, 1, Len(seq) - 1))
           last  == seq[Len(seq)]
       IN  IF last \in Range(front) THEN front ELSE Append(front, last)

\* The paginated resolvers and their endpoints.
PagedOps == {"fungibles", "nfts", "caveTokens"}
Endpoint(o) ==
  CASE o = "fungibles" -> "/state/entity/page/fungibles/"
    [] o = "nfts" -> "/state/entity/page/non-fungibles/"
    [] o = "caveTokens" -> "/state/key-value-store/keys"

\* Listing items a page may carry: a fungible holding; a non-fungible
\* holding with its vaults (item.vaults.items, or no `vaults` at all); the
\* programmatic_json of a key of the cave's key-value store (or no key).
FungibleItems == { [resource_address |-> a] : a \in Addrs }
NftItems ==
  { [resource_address |-> a, vaults |-> v] :
      a \in Addrs,
      v \in { Undefined, Arr(<<"vault_1">>), Arr(<<"vault_1", "vault_2">>) } }
KvsItems ==
  { [kind |-> "Reference", type_name |-> "ResourceAddress", value |-> a] :
      a \in Addrs \cup {""} }
    \cup { [kind |-> "Reference", type_name |-> "ComponentAddress",
            value |-> "component_1"],
           [kind |-> "Tuple", type_name |-> "", value |-> ""], Undefined }
ListingItems(endpoint) ==
  CASE endpoint = Endpoint("fungibles") -> FungibleItems
    [] endpoint = Endpoint("nfts") -> NftItems
    [] endpoint = Endpoint("caveTokens") -> KvsItems

\* An item of the details response: the `explicit_metadata.items` and the
\* `details` of the resource at `address`.
DetailItem(address, explicit_metadata, details) ==
  [address |-> address, explicit_metadata |-> explicit_metadata,
   details |-> details]

\* The item of a resource without explicit metadata and without details.
PlainItem(a) == DetailItem(a, Undefined, Undefined)
PlainItems(addresses) == [i \in 1..Len(addresses) |-> PlainItem(addresses[i])]
ItemAddresses(dataItems) == { dataItems[i].address : i \in 1..Len(dataItems) }

\* The metadata entries of an item: what the Gateway may report as the
\* name of a resource (`item.value?.typed`, `typedValue.value`).
NameValues ==
  { Undefined,
    [tag |-> "object", typed |-> Null],
    [tag |-> "object", typed |-> [tag |-> "object", value |-> Undefined]],
    [tag |-> "object", typed |-> [tag |-> "object", value |-> Str("")]],
    [tag |-> "object", typed |-> [tag |-> "object", value |-> Str("Gold")]] }
MetadataLists ==
  { Undefined, Arr(<<>>) }
    \cup { Arr(<<[key |-> "name", value |-> v]>>) : v \in NameValues }
    \cup { Arr(<<[key |-> "symbol",
                  value |-> [tag |-> "object",
                             typed |-> [tag |-> "object", value |-> Str("GLD")]]],
                 [key |-> "name", value |-> v]>>) :
             v \in { [tag |-> "object",
                      typed |-> [tag |-> "object", value |-> Str("Gold")]] } }

\* `item.details`: absent, or of a fungible resource with or without a
\* declared divisibility, or of a non-fungible resource.
Divisibilities == 0..18
DetailsOf ==
  { Undefined }
    \cup { [tag |-> "object", type |-> Str("FungibleResource"),
            divisibility |-> d] :
             d \in { Num(n) : n \in Divisibilities } \cup { Undefined, Null } }
    \cup { [tag |-> "object", type |-> Str("NonFungibleResource"),
            divisibility |-> d] : d \in { Undefined, Num(0) } }
DetailItems(a) ==
  { DetailItem(a, m, Undefined) : m \in MetadataLists }
    \cup { DetailItem(a, Undefined, d) : d \in DetailsOf }
    \cup { DetailItem(a, Arr(<<[key |-> "name",
                                value |-> [tag |-> "object",
                                           typed |-> [tag |-> "object",
                                                      value |-> Str("Gold")]]]>>),
                       [tag |-> "object", type |-> Str("FungibleResource"),
                        divisibility |-> Num(0)]) }

\* next_cursor of a page: null, absent, or a string.
Cursors == { Null, Undefined, Str(""), Str("cursor_1"), Str("cursor_2") }

Replies(r) ==
  CASE r.endpoint = "/status/gateway-status" ->
         { [kind |-> "json", epoch |-> e] : e \in Epochs }
    [] r.endpoint = "/state/entity/details" ->
         \* one item for each address of any part of the requested ones
         { [kind |-> "json",
            items |-> PlainItems(SelectSeq(Distinct(r.addresses),
                                           LAMBDA a : a \in S))] :
             S \in SUBSET Range(r.addresses) }
    [] r.endpoint \in { Endpoint(o) : o \in PagedOps } ->
         { [kind |-> "json", items |-> page, next_cursor |-> c] :
             page \in UNION { [1..n -> ListingItems(r.endpoint)] :
                                n \in 0..MaxPageItems },
             c \in Cursors }
    [] OTHER -> { [kind |-> "json"] }

\* What the network does to a request that fails: fetch() rejects, or the
\* response arrives with a status outside 200..299 and some body.
Statuses == {404, 500}
StatusText(status) == CASE status = 404 -> "404" [] status = 500 -> "500"
NotJson == [tag |-> "not json"]
Bodies ==
  { NotJson, Null, Str("down"), [tag |-> "object"],
    [tag |-> "object", message |-> Str("")],
    [tag |-> "object", message |-> Str("Entity not found")] }
Failures ==
  { [kind |-> "transport"] } \cup
  { [kind |-> "status", status |-> s, body |-> b] :
      s \in Statuses, b \in Bodies }
\* The failures the specifications of the resolvers draw from.
SomeFailures ==
  { [kind |-> "transport"],
    [kind |-> "status", status |-> 500, body |-> NotJson] }

\* `await response.json().catch(() => ({}))`
ErrorData(body) == IF body = NotJson THEN [tag |-> "object"] ELSE body

\* `errorData.message` on a value that has properties.
MessageOf(errorData) ==
  IF "message" \in DOMAIN errorData THEN errorData.message ELSE Undefined

\* The error a failed gatewayFetch throws: the TypeError fetch() rejects
\* with; the TypeError of reading `.message` of null; or
\* `new Error(errorData.message || \`Gateway error: ${response.status}\`)`.
\* `cause` records what the network did.
Thrown(f) ==
  IF f.kind = "transport"
  THEN [kind |-> f.kind, type |-> "TypeError", message |-> "Failed to fetch",
        cause |-> f]
  ELSE LET errorData == ErrorData(f.body)
       IN  IF errorData = Null
           THEN [kind |-> f.kind, type |-> "TypeError",
                 message |-> "Cannot read properties of null (reading 'message')",
                 cause |-> f]
           ELSE [kind |-> f.kind, type |-> "Error",
                 message |-> IF Truthy(MessageOf(errorData))
                             THEN MessageOf(errorData).s
                             ELSE "Gateway error: " \o StatusText(f.status),
                 cause |-> f]

\* A gatewayFetch that answers a failure with one more fetch().
RespondRetrying(t, failures) ==
  /\ pc[t] = "fetching"
  /\ \/ \E body \in Replies(req[t]) :
          /\ pc' = [pc EXCEPT ![t] = "ok"]
          /\ resp' = [resp EXCEPT ![t] = body]
     \/ \E f \in failures :
          /\ pc' = [pc EXCEPT ![t] = IF httpCount[t] = calls[t]
                                     THEN "acquired" ELSE "err"]
          /\ resp' = [resp EXCEPT ![t] = Thrown(f)]
  /\ UNCHANGED <<now, rlVars, wakeAt, req, calls, histVars, opVars>>
  /\ UNCHANGED nonGatewayVars

\* The network answers: fetch() rejects (transport), or the response is not
\* ok (gatewayFetch throws), or response.json() is returned.
Respond(t, failures) ==
  /\ pc[t] = "fetching"
  /\ \/ \E body \in Replies(req[t]) :
          /\ pc' = [pc EXCEPT ![t] = "ok"]
          /\ resp' = [resp EXCEPT ![t] = body]
     \/ \E f \in failures :
          /\ pc' = [pc EXCEPT ![t] = "err"]
          /\ resp' = [resp EXCEPT ![t] = Thrown(f)]
  /\ UNCHANGED <<now, rlVars, wakeAt, req, calls, histVars, opVars>>
  /\ UNCHANGED nonGatewayVars

\* The Gateway answers a details request for one address with an item of
\* any metadata and any details.
RespondDetails(t) ==
  /\ pc[t] = "fetching"
  /\ req[t].endpoint = "/state/entity/details"
  /\ Len(req[t].addresses) = 1
  /\ \E item \in DetailItems(req[t].addresses[1]) :
       resp' = [resp EXCEPT ![t] = [kind |-> "json", items |-> <<item>>]]
  /\ pc' = [pc EXCEPT ![t] = "ok"]
  /\ UNCHANGED <<now, rlVars, wakeAt, req, calls, histVars, opVars>>
  /\ UNCHANGED nonGatewayVars

\* --------------------------------------------------- previewTransaction
\* previewTransaction(manifest) is called: getNetworkStatus() posts the
\* status request.
PreviewBegin(t) ==
  /\ op[t] = "none"
  /\ runs[t] < MaxRuns
  /\ op' = [op EXCEPT ![t] = "preview"]
  /\ runs' = [runs EXCEPT ![t] = @ + 1]
  /\ result' = [result EXCEPT ![t] = NoResult]
  /\ GatewayFetchBegin(t, [endpoint |-> "/status/gateway-status"])
  /\ UNCHANGED <<now, httpCount>>
  /\ UNCHANGED nonGatewayVars

\* A previewTransaction whose epoch window ends one epoch earlier.
PreviewStatusReturnedShort(t) ==
  /\ op[t] = "preview"
  /\ pc[t] = "ok"
  /\ req[t].endpoint = "/status/gateway-status"
  /\ LET currentEpoch == resp[t].epoch
     IN  GatewayFetchBegin(t, [endpoint |-> "/transaction/preview",
                               start_epoch_inclusive |-> currentEpoch,
                               end_epoch_exclusive |-> currentEpoch + 1])
  /\ UNCHANGED <<now, httpCount, opVars>>
  /\ UNCHANGED nonGatewayVars

\* The status response has arrived: `currentEpoch = status.epoch`, then the
\* preview request is posted.
PreviewStatusReturned(t) ==
  /\ op[t] = "preview"
  /\ pc[t] = "ok"
  /\ req[t].endpoint = "/status/gateway-status"
  /\ LET currentEpoch == resp[t].epoch
     IN  GatewayFetchBegin(t, [endpoint |-> "/transaction/preview",
                               start_epoch_inclusive |-> currentEpoch,
                               end_epoch_exclusive |-> currentEpoch + 2])
  /\ UNCHANGED <<now, httpCount, opVars>>
  /\ UNCHANGED nonGatewayVars

\* The preview response has arrived (`return data`), or either request
\* failed and the error is thrown to the caller of previewTransaction.
PreviewEnd(t) ==
  /\ op[t] = "preview"
  /\ \/ pc[t] = "ok" /\ req[t].endpoint = "/transaction/preview"
     \/ pc[t] = "err"
  /\ op' = [op EXCEPT ![t] = "none"]
  /\ result' = [result EXCEPT ![t] =
                  [status |-> IF pc[t] = "ok" THEN "returned" ELSE "threw",
                   value |-> resp[t]]]
  /\ pc' = [pc EXCEPT ![t] = "idle"]
  /\ req' = [req EXCEPT ![t] = NoReq]
  /\ resp' = [resp EXCEPT ![t] = NoResp]
  /\ calls' = [calls EXCEPT ![t] = 0]
  /\ acqCount' = [acqCount EXCEPT ![t] = 0]
  /\ httpCount' = [httpCount EXCEPT ![t] = 0]
  /\ UNCHANGED <<now, rlVars, wakeAt, runs, inWindow, recent, windowEndAtCall,
                 resetSeen, early, slept>>
  /\ UNCHANGED nonGatewayVars

\* ---------------------------------------------------------------- cache.js
\* Logical cache keys: `resource:${addr}` in the durable cache;
\* `fungibles:${account}`, `nfts:${account}` and 'cave_tokens' in the
\* session cache.  A key is the pair of its fixed part and its variable part.
ResourceKey(addr) == <<"resource:", addr>>
FungiblesKey(account) == <<"fungibles:", account>>
NftsKey(account) == <<"nfts:", account>>
CaveTokensKey == <<"cave_tokens", "">>
DurableKeys == { ResourceKey(a) : a \in Addrs }
SessionKeys ==
  { FungiblesKey(a) : a \in Accounts } \cup { NftsKey(a) : a \in Accounts }
    \cup { CaveTokensKey }

\* `CACHE_PREFIX + key`; localStorage also holds a key of another script of
\* the same origin.
CACHE_PREFIX == "hypercave_"
StorageKey(key) == <<CACHE_PREFIX>> \o key
OwnStorageKeys == { StorageKey(k) : k \in DurableKeys }
StorageKeys == OwnStorageKeys \cup { <<"", "theme", "">> }
StartsWithPrefix(k) == k[1] = CACHE_PREFIX

\* Texts in localStorage: none (getItem returns null), a JSON document
\* {"value":..,"expiry":..}, or a text JSON.parse rejects.
Absent == Null
Garbage == [kind |-> "garbage"]
Foreign == [kind |-> "foreign"]
JsonText(value, expiry) == [kind |-> "json", value |-> value, expiry |-> expiry]

\* sessionCache.data.get(key) of a key that is not in the map.
NoItem == Undefined

\* Values and time-to-live arguments handed to set().  Circular stands for
\* a value JSON.stringify throws on.
Circular == [tag |-> "circular"]
Values == { Obj("v1"), Obj("v2") }
Ttls == { Num(n) : n \in 1..MaxTtl } \cup { Infinity }

\* CONFIG.cacheTtl.accountResources and CONFIG.caveKvsAddress
accountResourcesTtl == Infinity
caveKvsAddress == "caveKvsAddress"

\* `Date.now() + ttlMs`
Plus(t, ttlMs) == IF ttlMs.tag = "Infinity" THEN Infinity ELSE Num(t + ttlMs.n)

\* JSON.stringify of a number: Infinity is written as null.
JsonNumber(x) == IF x.tag = "Infinity" THEN Null ELSE x

\* JSON.stringify(item) and whether it returns at all.
CanStringify(item) == item.value # Circular
JsonStringify(item) == JsonText(item.value, JsonNumber(item.expiry))

\* JSON.parse(text) and whether it returns at all.
CanParse(text) == text.kind = "json"
JsonParse(text) == [value |-> text.value, expiry |-> text.expiry]

\* `Date.now() > expiry`: the comparison converts null to 0.
GreaterThan(t, x) ==
  CASE x.tag = "number" -> t > x.n
    [] x.tag = "null" -> t > 0
    [] OTHER -> FALSE

\* `expiry !== Infinity && Date.now() > expiry`
ExpiredInclusive(expiry, t) ==
  expiry.tag # "Infinity" /\ (GreaterThan(t, expiry) \/ expiry = Num(t))
Expired(expiry, t) == expiry.tag # "Infinity" /\ GreaterThan(t, expiry)

\* `catch { return null; }` of cache.get and `catch (e) { console.warn(..) }`
\* of cache.set: whether an exception raised in the try block leaves the
\* method.
Rethrown(raised) == raised
GetRethrows(raised) == FALSE
SetRethrows(raised) == FALSE

\* cache.get(key) at instant t on localStorage st; readFails: getItem throws.
CacheGet(st, key, t, readFails) ==
  LET text == st[StorageKey(key)]
  IN  IF readFails
      THEN [value |-> Null, storage |-> st, threw |-> GetRethrows(TRUE)]
      ELSE IF text = Absent
      THEN [value |-> Null, storage |-> st, threw |-> FALSE]
      ELSE IF ~CanParse(text)
      THEN [value |-> Null, storage |-> st, threw |-> GetRethrows(TRUE)]
      ELSE LET item == JsonParse(text)
           IN  IF Expired(item.expiry, t)
               THEN [value |-> Null,
                     storage |-> [st EXCEPT ![StorageKey(key)] = Absent],
                     threw |-> FALSE]
               ELSE [value |-> item.value, storage |-> st, threw |-> FALSE]

\* cache.set(key, value, ttlMs) at instant t; quota: setItem throws.
CacheSet(st, key, value, ttlMs, t, quota) ==
  LET item == [value |-> value, expiry |-> Plus(t, ttlMs)]
      raised == ~CanStringify(item) \/ quota
  IN  [storage |-> IF raised THEN st
                   ELSE [st EXCEPT ![StorageKey(key)] = JsonStringify(item)],
       raised |-> raised,
       threw |-> SetRethrows(raised)]

\* cache.remove(key) and cache.clearAll()
CacheRemove(st, key) == [st EXCEPT ![StorageKey(key)] = Absent]
CacheClearAll(st) ==
  [k \in DOMAIN st |-> IF StartsWithPrefix(k) THEN Absent ELSE st[k]]

\* sessionCache.get(key) at instant t on the map d.
SessionGetMiss(d, key, t) == [value |-> Null, data |-> d]
SessionGet(d, key, t) ==
  LET item == d[key]
  IN  IF item = NoItem
      THEN [value |-> Null, data |-> d]
      ELSE IF Expired(item.expiry, t)
      THEN [value |-> Null, data |-> [d EXCEPT ![key] = NoItem]]
      ELSE [value |-> item.value, data |-> d]

\* sessionCache.set(key, value, ttlMs), remove(key) and clear()
SessionSet(d, key, value, ttlMs, t) ==
  [d EXCEPT ![key] = [value |-> value, expiry |-> Plus(t, ttlMs)]]
SessionRemove(d, key) == [d EXCEPT ![key] = NoItem]
SessionClear(d) == [k \in DOMAIN d |-> NoItem]

\* History records.
NoKey == <<"", "">>
NoOp == [cache |-> "none", op |-> "none", key |-> NoKey, at |-> 0,
         fault |-> FALSE, threw |-> FALSE, changed |-> FALSE, result |-> Null]
NoSet == [live |-> FALSE, value |-> Null, ttlMs |-> Infinity, at |-> 0]
SetAt(value, ttlMs, t) == [live |-> TRUE, value |-> value, ttlMs |-> ttlMs, at |-> t]

\* ------------------------------------------------- callers of the caches
DoCacheGet(key, readFails) ==
  LET r == CacheGet(storage, key, now, readFails)
  IN  /\ storage' = r.storage
      /\ lastOp' = [cache |-> "cache", op |-> "get", key |-> key, at |-> now,
                    fault |-> readFails \/ storage[StorageKey(key)] = Garbage,
                    threw |-> r.threw, changed |-> r.storage # storage,
                    result |-> r.value]
      /\ UNCHANGED <<now, gatewayVars, resolverVars, uiVars, data, probe, lastSet>>

DoCacheSet(key, value, ttlMs, quota) ==
  LET r == CacheSet(storage, key, value, ttlMs, now, quota)
  IN  /\ storage' = r.storage
      /\ lastOp' = [cache |-> "cache", op |-> "set", key |-> key, at |-> now,
                    fault |-> quota \/ value = Circular,
                    threw |-> r.threw, changed |-> r.storage # storage,
                    result |-> Null]
      /\ lastSet' = IF r.raised THEN lastSet
                    ELSE [lastSet EXCEPT !["cache"][key] = SetAt(value, ttlMs, now)]
      /\ UNCHANGED <<now, gatewayVars, resolverVars, uiVars, data, probe>>

DoCacheRemove(key) ==
  /\ storage' = CacheRemove(storage, key)
  /\ lastOp' = [NoOp EXCEPT !.cache = "cache", !.op = "remove", !.key = key,
                            !.at = now]
  /\ lastSet' = [lastSet EXCEPT !["cache"][key] = NoSet]
  /\ UNCHANGED <<now, gatewayVars, resolverVars, uiVars, data, probe>>

DoCacheClearAll ==
  /\ storage' = CacheClearAll(storage)
  /\ lastOp' = [NoOp EXCEPT !.cache = "cache", !.op = "clearAll", !.at = now]
  /\ lastSet' = [lastSet EXCEPT !["cache"] = [k \in DurableKeys |-> NoSet]]
  /\ UNCHANGED <<now, gatewayVars, resolverVars, uiVars, data, probe>>

\* Something other than cache.js rewrites an entry of localStorage (the
\* user, another version of the page): the text no longer parses.
StorageCorrupt(key) ==
  /\ storage[StorageKey(key)] # Garbage
  /\ storage' = [storage EXCEPT ![StorageKey(key)] = Garbage]
  /\ lastSet' = [lastSet EXCEPT !["cache"][key] = NoSet]
  /\ UNCHANGED <<now, gatewayVars, resolverVars, uiVars, data, probe, lastOp>>

DoSessionGet(key) ==
  LET r == SessionGet(data, key, now)
  IN  /\ data' = r.data
      /\ lastOp' = [cache |-> "sessionCache", op |-> "get", key |-> key,
                    at |-> now, fault |-> FALSE, threw |-> FALSE,
                    changed |-> r.data # data, result |-> r.value]
      /\ UNCHANGED <<now, gatewayVars, resolverVars, uiVars, storage, probe, lastSet>>

DoSessionSet(key, value, ttlMs) ==
  /\ data' = SessionSet(data, key, value, ttlMs, now)
  /\ lastOp' = [NoOp EXCEPT !.cache = "sessionCache", !.op = "set",
                            !.key = key, !.at = now, !.changed = TRUE]
  /\ lastSet' = [lastSet EXCEPT !["sessionCache"][key] = SetAt(value, ttlMs, now)]
  /\ UNCHANGED <<now, gatewayVars, resolverVars, uiVars, storage, probe>>

DoSessionRemove(key) ==
  /\ data' = SessionRemove(data, key)
  /\ lastOp' = [NoOp EXCEPT !.cache = "sessionCache", !.op = "remove",
                            !.key = key, !.at = now]
  /\ lastSet' = [lastSet EXCEPT !["sessionCache"][key] = NoSet]
  /\ UNCHANGED <<now, gatewayVars, resolverVars, uiVars, storage, probe>>

DoSessionClear ==
  /\ data' = SessionClear(data)
  /\ lastOp' = [NoOp EXCEPT !.cache = "sessionCache", !.op = "clear", !.at = now]
  /\ lastSet' = [lastSet EXCEPT !["sessionCache"] = [k \in SessionKeys |-> NoSet]]
  /\ UNCHANGED <<now, gatewayVars, resolverVars, uiVars, storage, probe>>

\* --------------------------------------------------- getResourceMetadata
\* The address lists getResourceMetadata is called with (an address may
\* occur twice: getAccountFungibles passes one address per holding).
AddressLists == UNION { [1..n -> Addrs] : n \in 0..MaxAddrs }

NoResults == [a \in Addrs |-> Undefined]

\* `for (const addr of addresses)`: cache.get of each address in turn, from
\* the i-th on; acc holds results, toFetch and localStorage so far.
LookupNoCache(addresses, i, acc) ==
  [results |-> acc.results, toFetch |-> addresses, storage |-> acc.storage]

RECURSIVE Lookup(_, _, _)
Lookup(addresses, i, acc) ==
  IF i > Len(addresses) THEN acc
  ELSE LET addr   == addresses[i]
           cached == CacheGet(acc.storage, ResourceKey(addr), now, FALSE)
       IN  Lookup(addresses, i + 1,
             IF Truthy(cached.value)
             THEN [results |-> [acc.results EXCEPT ![addr] = cached.value],
                   toFetch |-> acc.toFetch,
                   storage |-> cached.storage]
             ELSE [results |-> acc.results,
                   toFetch |-> Append(acc.toFetch, addr),
                   storage |-> cached.storage])

\* shortenAddress(address, startLen, endLen) of utils.js
ShortenAddress(address, startLen, endLen) ==
  IF address = "" \/ Len(address) <= startLen + endLen + 3 THEN address
  ELSE SubSeq(address, 1, startLen) \o "..."
         \o SubSeq(address, Len(address) - endLen + 1, Len(address))

\* extractMetadata(items): `result[item.key] = typedValue.value` for every
\* item whose value has a typed value; a key never set is undefined.
MetaKeys == {"name", "symbol", "icon_url", "description"}
TypedOf(value) == IF value \in {Null, Undefined} THEN Undefined ELSE value.typed
RECURSIVE ExtractMetadata(_, _, _)
ExtractMetadata(metadataItems, i, acc) ==
  IF i > Len(metadataItems) THEN acc
  ELSE LET item == metadataItems[i]
           typedValue == TypedOf(item.value)
       IN  ExtractMetadata(metadataItems, i + 1,
             IF Truthy(typedValue) /\ typedValue.value # Undefined
             THEN [acc EXCEPT ![item.key] = typedValue.value]
             ELSE acc)

\* `item.explicit_metadata?.items || []`
MetadataItems(item) ==
  IF item.explicit_metadata \in {Null, Undefined} THEN <<>>
  ELSE item.explicit_metadata.items

\* `item.details?.type`
TypeOf(details) == IF details \in {Null, Undefined} THEN Undefined ELSE details.type

\* `let divisibility = 18; if (item.details?.type === 'FungibleResource')
\* divisibility = item.details.divisibility ?? 18`
DivisibilityOf(item) ==
  IF TypeOf(item.details) = Str("FungibleResource")
  THEN Nullish(item.details.divisibility, Num(18))
  ELSE Num(18)

\* A resourceData whose divisibility is 18 unless a non-zero one is declared.
ResourceDataNoZero(item) ==
  LET meta == ExtractMetadata(MetadataItems(item), 1,
                             [k \in MetaKeys |-> Undefined])
  IN  Obj([address |-> item.address,
           name |-> OrElse(meta["name"], Str(ShortenAddress(item.address, 15, 6))),
           symbol |-> OrElse(meta["symbol"], Str("")),
           iconUrl |-> OrElse(meta["icon_url"], Null),
           description |-> OrElse(meta["description"], Str("")),
           entityType |-> TypeOf(item.details),
           divisibility |-> IF TypeOf(item.details) = Str("FungibleResource")
                            THEN OrElse(item.details.divisibility, Num(18))
                            ELSE Num(18)])

\* `const meta = extractMetadata(item.explicit_metadata?.items || [])` and
\* `const resourceData = {...}` built from an item of the response.
ResourceData(item) ==
  LET meta == ExtractMetadata(MetadataItems(item), 1,
                             [k \in MetaKeys |-> Undefined])
  IN  Obj([address |-> item.address,
           name |-> OrElse(meta["name"], Str(ShortenAddress(item.address, 15, 6))),
           symbol |-> OrElse(meta["symbol"], Str("")),
           iconUrl |-> OrElse(meta["icon_url"], Null),
           description |-> OrElse(meta["description"], Str("")),
           entityType |-> TypeOf(item.details),
           divisibility |-> DivisibilityOf(item)])

\* `for (const item of data.items)`: results[item.address] = resourceData
\* and cache.set of it, from the i-th item on.
RECURSIVE Store(_, _, _, _)
Store(dataItems, i, acc, quota) ==
  IF i > Len(dataItems) THEN acc
  ELSE LET resourceData == ResourceData(dataItems[i])
           w == CacheSet(acc.storage, ResourceKey(dataItems[i].address),
                         resourceData, ttlCfg, now, quota)
       IN  Store(dataItems, i + 1,
                 [results |-> [acc.results EXCEPT ![dataItems[i].address] =
                                                    resourceData],
                  storage |-> w.storage,
                  written |-> IF w.raised THEN acc.written
                              ELSE acc.written \cup {dataItems[i].address}],
                 quota)

\* The durable cache holds an unexpired entry for address a at instant t.
Readable(st, a, t) ==
  LET text == st[StorageKey(ResourceKey(a))]
  IN  /\ text # Absent
      /\ text.kind = "json"
      /\ text.expiry.tag = "number"
      /\ text.expiry.n >= t

\* An exported function returns or throws: the task is idle again.
EndCall(t) ==
  /\ op' = [op EXCEPT ![t] = "none"]
  /\ pc' = [pc EXCEPT ![t] = "idle"]
  /\ req' = [req EXCEPT ![t] = NoReq]
  /\ resp' = [resp EXCEPT ![t] = NoResp]
  /\ calls' = [calls EXCEPT ![t] = 0]
  /\ acqCount' = [acqCount EXCEPT ![t] = 0]
  /\ httpCount' = [httpCount EXCEPT ![t] = 0]
  /\ UNCHANGED <<now, rlVars, wakeAt, runs, inWindow, recent, windowEndAtCall,
                 resetSeen, early, slept>>

\* The cache reads getResourceMetadata(addresses) begins with.
MetaLookup(addresses) ==
  Lookup(addresses, 1,
         [results |-> NoResults, toFetch |-> <<>>, storage |-> storage])

\* getResourceMetadata(addresses) is entered by t, its cache reads being l.
MetaEnter(t, addresses, l) ==
  /\ askedAtCall' = [askedAtCall EXCEPT ![t] = Range(addresses)]
  /\ readableAtCall' = [readableAtCall EXCEPT ![t] =
                          { a \in Range(addresses) : Readable(storage, a, now) }]
  /\ writtenAtCall' = [writtenAtCall EXCEPT ![t] = written]
  /\ storage' = l.storage

DetailsRequest(toFetch) ==
  [endpoint |-> "/state/entity/details", addresses |-> toFetch]

\* getResourceMetadata(addresses) is called: the cache is read for every
\* address; then either the batch request is posted or, nothing being left
\* to fetch, the call returns.
MetaBegin(t, addresses) ==
  /\ op[t] = "none"
  /\ UNCHANGED uiVars
  /\ runs[t] < MaxRuns
  /\ runs' = [runs EXCEPT ![t] = @ + 1]
  /\ LET l == MetaLookup(addresses)
     IN  /\ MetaEnter(t, addresses, l)
         /\ IF Len(l.toFetch) > 0
            THEN /\ op' = [op EXCEPT ![t] = "meta"]
                 /\ results' = [results EXCEPT ![t] = l.results]
                 /\ result' = [result EXCEPT ![t] = NoResult]
                 /\ GatewayFetchBegin(t, DetailsRequest(l.toFetch))
                 /\ UNCHANGED httpCount
            ELSE /\ result' = [result EXCEPT ![t] =
                                 [status |-> "returned", value |-> l.results,
                                  requests |-> 0, complete |-> TRUE]]
                 /\ UNCHANGED <<op, results, rlVars, gwVars, histVars>>
  /\ UNCHANGED <<now, data, probe, lastOp, lastSet, ttlCfg, written, pageVars>>

\* ------------------------------------------------- paginated resolvers
\* `const cacheKey = ...`
CacheKeyOf(o, account) ==
  CASE o = "fungibles" -> FungiblesKey(account)
    [] o = "nfts" -> NftsKey(account)
    [] o = "caveTokens" -> CaveTokensKey

\* A loop that asks for the first page again, whatever cursor it holds.
RequestBodyFirstPage(o, address, cur) ==
  [endpoint |-> Endpoint(o), address |-> address, cursor |-> Undefined]

\* `const requestBody = {...}; if (cursor) requestBody.cursor = cursor;`
\* (a body without cursor field has cursor undefined).
RequestBody(o, address, cur) ==
  [endpoint |-> Endpoint(o), address |-> address,
   cursor |-> IF Truthy(cur) THEN cur ELSE Undefined]

\* `item.vaults?.items || []`
VaultsOf(item) == IF item.vaults = Undefined THEN <<>> ELSE item.vaults.items

\* A key test that asks for a reference only.
IsReference(keyData) ==
  /\ keyData # Undefined
  /\ keyData.kind = "Reference"

\* The test getAllCaveTokens applies to `item.key?.programmatic_json`.
IsResourceKey(keyData) ==
  /\ keyData # Undefined
  /\ keyData.kind = "Reference"
  /\ keyData.type_name = "ResourceAddress"
  /\ keyData.value # ""

\* A loop body that adds one record for a resource, whatever its vaults.
PushPerResource(o, acc, item) ==
  CASE o = "fungibles" ->
         Append(acc, [resourceAddress |-> item.resource_address])
    [] o = "nfts" ->
         Append(acc, [resourceAddress |-> item.resource_address,
                      vaultAddress |-> IF VaultsOf(item) = <<>> THEN ""
                                       ELSE VaultsOf(item)[1]])
    [] o = "caveTokens" ->
         IF IsResourceKey(item) /\ item.value \notin Range(acc)
         THEN Append(acc, item.value)
         ELSE acc

\* What the body of `for (const item of data.items)` adds for one item.
Push(o, acc, item) ==
  CASE o = "fungibles" ->
         Append(acc, [resourceAddress |-> item.resource_address])
    [] o = "nfts" ->
         acc \o [i \in 1..Len(VaultsOf(item)) |->
                   [resourceAddress |-> item.resource_address,
                    vaultAddress |-> VaultsOf(item)[i]]]
    [] o = "caveTokens" ->
         IF IsResourceKey(item) /\ item.value \notin Range(acc)
         THEN Append(acc, item.value)
         ELSE acc

RECURSIVE PushAll(_, _, _)
PushAll(o, acc, page) ==
  IF page = <<>> THEN acc
  ELSE PushAll(o, Push(o, acc, Head(page)), Tail(page))

\* The address list handed to getResourceMetadata.
AddressesOf(o, acc) ==
  LET all == [i \in 1..Len(acc) |-> acc[i].resourceAddress]
  IN  IF o = "nfts" THEN Distinct(all) ELSE all

\* `items.map(item => ({...item, ...metadata[item.resourceAddress]}))`
Merge(acc, metadata) ==
  Arr([i \in 1..Len(acc) |->
         [item |-> acc[i], metadata |-> metadata[acc[i].resourceAddress]]])

NoPages == [op |-> "none", requests |-> 0, pages |-> 0, last |-> Null,
            served |-> <<>>, done |-> FALSE, items |-> <<>>,
            hit |-> FALSE, cached |-> Null, sent |-> {}]

\* The session cache d holds an unexpired entry under key at instant t.
SessionHolds(d, key, t) ==
  /\ d[key] # NoItem
  /\ \/ d[key].expiry = Infinity
     \/ d[key].expiry.tag = "number" /\ d[key].expiry.n >= t

\* The locals of a resolver call go out of scope.
DropLocals(t) ==
  /\ cacheKey' = [cacheKey EXCEPT ![t] = NoKey]
  /\ cursor' = [cursor EXCEPT ![t] = Null]
  /\ items' = [items EXCEPT ![t] = <<>>]

\* A resolver that writes the records to the session cache before the
\* metadata are merged into them.
HoldingsFinishUnmerged(t, acc, metadata) ==
  /\ data' = SessionSet(data, cacheKey[t], Arr(acc), accountResourcesTtl, now)
  /\ result' = [result EXCEPT ![t] =
                  [status |-> "returned", value |-> Merge(acc, metadata),
                   requests |-> httpCount[t], complete |-> TRUE]]
  /\ DropLocals(t)
  /\ EndCall(t)

\* A resolver that writes its result only while the account of its key is
\* the active one.
HoldingsFinishIfActive(t, acc, metadata) ==
  /\ data' = IF currentAccount # Null /\ cacheKey[t][2] = currentAccount.v
             THEN SessionSet(data, cacheKey[t], Merge(acc, metadata),
                             accountResourcesTtl, now)
             ELSE data
  /\ result' = [result EXCEPT ![t] =
                  [status |-> "returned", value |-> Merge(acc, metadata),
                   requests |-> httpCount[t], complete |-> TRUE]]
  /\ DropLocals(t)
  /\ EndCall(t)

\* getAccountFungibles / getAccountNonFungibles: the merged result is
\* written to the session cache and returned.
HoldingsFinish(t, acc, metadata) ==
  /\ data' = SessionSet(data, cacheKey[t], Merge(acc, metadata),
                        accountResourcesTtl, now)
  /\ result' = [result EXCEPT ![t] =
                  [status |-> "returned", value |-> Merge(acc, metadata),
                   requests |-> httpCount[t], complete |-> TRUE]]
  /\ DropLocals(t)
  /\ EndCall(t)

\* History of a call that begins: whether the session cache holds an
\* unexpired entry under the call's key, and the value of that entry.
HeldAtCall(o, account) ==
  LET key == CacheKeyOf(o, account)
  IN  IF SessionHolds(data, key, now)
      THEN [NoPages EXCEPT !.hit = TRUE, !.cached = data[key].value]
      ELSE NoPages

\* A paginated resolver is called: a session-cache hit is returned;
\* otherwise the request of the first page is posted.
HoldingsBegin(t, o, account) ==
  /\ op[t] = "none"
  /\ UNCHANGED uiVars
  /\ runs[t] < MaxRuns
  /\ runs' = [runs EXCEPT ![t] = @ + 1]
  /\ LET cached == SessionGet(data, CacheKeyOf(o, account), now)
     IN  /\ data' = cached.data
         /\ IF Truthy(cached.value)
            THEN /\ result' = [result EXCEPT ![t] =
                                 [status |-> "returned", value |-> cached.value,
                                  requests |-> 0, complete |-> TRUE]]
                 /\ pageHist' = [pageHist EXCEPT ![t] =
                                   [HeldAtCall(o, account) EXCEPT !.op = o]]
                 /\ UNCHANGED <<op, rlVars, gwVars, histVars, cacheKey, cursor,
                                items>>
            ELSE /\ op' = [op EXCEPT ![t] = o]
                 /\ result' = [result EXCEPT ![t] = NoResult]
                 /\ cacheKey' = [cacheKey EXCEPT ![t] = CacheKeyOf(o, account)]
                 /\ cursor' = [cursor EXCEPT ![t] = Null]
                 /\ items' = [items EXCEPT ![t] = <<>>]
                 /\ pageHist' = [pageHist EXCEPT ![t] =
                                   [HeldAtCall(o, account) EXCEPT
                                      !.op = o, !.requests = 1]]
                 /\ GatewayFetchBegin(t,
                      RequestBody(o, IF o = "caveTokens" THEN caveKvsAddress
                                     ELSE account, Null))
                 /\ UNCHANGED httpCount
  /\ UNCHANGED <<now, storage, probe, lastOp, lastSet, metaVars>>

\* The response of a page has arrived: its items are accumulated and
\* `cursor = data.next_cursor`; `while (cursor)` either posts the request of
\* the next page or leaves the loop.  After the loop getAllCaveTokens writes
\* the session cache and returns; the holdings resolvers call
\* getResourceMetadata, which posts its batch request or, every address
\* being cached, returns at once, and then the merged result is written to
\* the session cache and returned.
PageResponse(t) ==
  /\ op[t] \in PagedOps
  /\ UNCHANGED uiVars
  /\ pc[t] = "ok"
  /\ req[t].endpoint = Endpoint(op[t])
  /\ LET o    == op[t]
         acc  == PushAll(o, items[t], resp[t].items)
         next == resp[t].next_cursor
         \* history: the pages received, and the transactions that had
         \* been submitted when the first of them arrived
         h    == [pageHist[t] EXCEPT
                    !.pages = @ + 1, !.last = next,
                    !.served = @ \o resp[t].items,
                    !.sent = IF pageHist[t].pages = 0
                             THEN { i \in DOMAIN txs : txs[i] # NoCall }
                             ELSE @]
     IN  IF Truthy(next)
         THEN /\ h.requests < MaxPages
              /\ cursor' = [cursor EXCEPT ![t] = next]
              /\ items' = [items EXCEPT ![t] = acc]
              /\ pageHist' = [pageHist EXCEPT ![t] =
                                [h EXCEPT !.requests = @ + 1]]
              /\ GatewayFetchBegin(t, RequestBody(o, req[t].address, next))
              /\ UNCHANGED <<now, httpCount, opVars, cacheKey, cacheVars,
                             metaVars>>
         ELSE /\ pageHist' = [pageHist EXCEPT ![t] =
                                [h EXCEPT !.done = TRUE, !.items = acc]]
              /\ IF o = "caveTokens"
                 THEN /\ data' = SessionSet(data, cacheKey[t], Arr(acc),
                                            accountResourcesTtl, now)
                      /\ result' = [result EXCEPT ![t] =
                                      [status |-> "returned", value |-> Arr(acc),
                                       requests |-> httpCount[t],
                                       complete |-> TRUE]]
                      /\ DropLocals(t)
                      /\ EndCall(t)
                      /\ UNCHANGED <<storage, probe, lastOp, lastSet, metaVars>>
                 ELSE LET addresses == AddressesOf(o, acc)
                          l == MetaLookup(addresses)
                      IN  /\ MetaEnter(t, addresses, l)
                          /\ IF Len(l.toFetch) > 0
                             THEN /\ cursor' = [cursor EXCEPT ![t] = next]
                                  /\ items' = [items EXCEPT ![t] = acc]
                                  /\ results' = [results EXCEPT ![t] = l.results]
                                  /\ GatewayFetchBegin(t, DetailsRequest(l.toFetch))
                                  /\ UNCHANGED <<now, httpCount, opVars, cacheKey,
                                                 data>>
                             ELSE /\ HoldingsFinish(t, acc, l.results)
                                  /\ UNCHANGED results
                          /\ UNCHANGED <<probe, lastOp, lastSet, ttlCfg, written>>

\* A resolver that stores the pages accumulated so far when a request of
\* its loop fails.
PageFailedKeeping(t) ==
  /\ op[t] \in PagedOps
  /\ UNCHANGED uiVars
  /\ pc[t] = "err"
  /\ req[t].endpoint = Endpoint(op[t])
  /\ data' = SessionSet(data, cacheKey[t], Arr(items[t]), accountResourcesTtl, now)
  /\ result' = [result EXCEPT ![t] =
                  IF op[t] = "caveTokens"
                  THEN [status |-> "returned", value |-> Arr(<<>>),
                        requests |-> httpCount[t], complete |-> FALSE]
                  ELSE [status |-> "threw", value |-> resp[t],
                        requests |-> httpCount[t], complete |-> FALSE]]
  /\ DropLocals(t)
  /\ EndCall(t)
  /\ UNCHANGED <<storage, probe, lastOp, lastSet, metaVars, pageHist>>

\* The request of a page failed: gatewayFetch throws.  getAllCaveTokens
\* catches the error and returns []; the holdings resolvers throw.
PageFailed(t) ==
  /\ op[t] \in PagedOps
  /\ UNCHANGED uiVars
  /\ pc[t] = "err"
  /\ req[t].endpoint = Endpoint(op[t])
  /\ result' = [result EXCEPT ![t] =
                  IF op[t] = "caveTokens"
                  THEN [status |-> "returned", value |-> Arr(<<>>),
                        requests |-> httpCount[t], complete |-> FALSE]
                  ELSE [status |-> "threw", value |-> resp[t],
                        requests |-> httpCount[t], complete |-> FALSE]]
  /\ DropLocals(t)
  /\ EndCall(t)
  /\ UNCHANGED <<cacheVars, metaVars, pageHist>>

\* ------------------------------ getResourceMetadata: the batch response
\* The batch response has arrived: every item is put into results and
\* written to the durable cache; `return results`, to the caller of
\* getResourceMetadata or into the holdings resolver that awaits it.
MetaResponse(t, quota) ==
  /\ op[t] \in {"meta", "fungibles", "nfts"}
  /\ UNCHANGED uiVars
  /\ pc[t] = "ok"
  /\ req[t].endpoint = "/state/entity/details"
  /\ LET st == Store(resp[t].items, 1,
                     [results |-> results[t], storage |-> storage, written |-> {}],
                     quota)
     IN  /\ storage' = st.storage
         /\ written' = written \cup st.written
         /\ IF op[t] = "meta"
            THEN /\ result' = [result EXCEPT ![t] =
                                 [status |-> "returned", value |-> st.results,
                                  requests |-> httpCount[t],
                                  complete |-> Range(req[t].addresses)
                                                 \subseteq ItemAddresses(resp[t].items)]]
                 /\ EndCall(t)
                 /\ UNCHANGED <<data, pageVars>>
            ELSE /\ HoldingsFinish(t, items[t], st.results)
                 /\ UNCHANGED pageHist
  /\ results' = [results EXCEPT ![t] = NoResults]
  /\ UNCHANGED <<probe, lastOp, lastSet, askedAtCall, ttlCfg, readableAtCall,
                 writtenAtCall>>

\* The batch request failed: gatewayFetch throws and so does
\* getResourceMetadata, and the holdings resolver that awaits it.
MetaFailed(t) ==
  /\ op[t] \in {"meta", "fungibles", "nfts"}
  /\ UNCHANGED uiVars
  /\ pc[t] = "err"
  /\ req[t].endpoint = "/state/entity/details"
  /\ result' = [result EXCEPT ![t] =
                  [status |-> "threw", value |-> resp[t],
                   requests |-> httpCount[t], complete |-> FALSE]]
  /\ results' = [results EXCEPT ![t] = NoResults]
  /\ DropLocals(t)
  /\ EndCall(t)
  /\ UNCHANGED <<cacheVars, askedAtCall, ttlCfg, readableAtCall, written,
                 writtenAtCall, pageHist>>

\* ------------------------------------------- parseBalancesFromReceipt
\* `balances[addr] = null` for every queried address (an address that is
\* not queried is no key of the map).
AllNull(resourceAddresses) ==
  [a \in Addrs |-> IF a \in Range(resourceAddresses) THEN Null ELSE Undefined]

\* `element.variant_id === '1' || element.variant_name === 'Some'`
IsSomeByName(element) == element.variant_name = Str("Some")
IsSome(element) ==
  element.variant_id = Str("1") \/ element.variant_name = Str("Some")

\* `element.fields?.[0]?.value`
FirstFieldValue(element) ==
  IF element.fields \in {Null, Undefined} THEN Undefined
  ELSE IF Len(element.fields.items) = 0 THEN Undefined
  ELSE IF element.fields.items[1] \in {Null, Undefined} THEN Undefined
  ELSE element.fields.items[1].value

\* The loop over the positions, from the i-th on.  Reading a property of an
\* element that is null or undefined throws; the catch clause logs, and
\* the balances decoded so far are returned.
RECURSIVE DecodeFrom(_, _, _, _)
DecodeFrom(i, elements, resourceAddresses, balances) ==
  IF i > Len(resourceAddresses) \/ i > Len(elements) THEN balances
  ELSE IF elements[i] \in {Null, Undefined} THEN balances
  ELSE DecodeFrom(i + 1, elements, resourceAddresses,
         IF IsSome(elements[i])
         THEN [balances EXCEPT ![resourceAddresses[i]] =
                 OrElse(FirstFieldValue(elements[i]), Str("0"))]
         ELSE balances)

\* `outputs[outputs.length - 1]`
FirstOutput(outputs) == outputs[1]
LastOutput(outputs) == outputs[Len(outputs)]

ParseBalancesFromReceipt(receipt, resourceAddresses) ==
  LET balances == AllNull(resourceAddresses)
  IN  IF receipt \in {Null, Undefined} \/ receipt.status # Str("Succeeded")
      THEN balances
      ELSE LET outputs == OrElse(receipt.output, Arr(<<>>)).items
           IN  IF Len(outputs) = 0 THEN balances
               ELSE LET lastOutput == LastOutput(outputs)
                        programmaticJson ==
                          IF lastOutput \in {Null, Undefined} THEN Undefined
                          ELSE lastOutput.programmatic_json
                    IN  IF ~Truthy(programmaticJson) THEN balances
                        ELSE DecodeFrom(1,
                               OrElse(OrElse(programmaticJson.elements,
                                             programmaticJson.fields),
                                      Arr(<<>>)).items,
                               resourceAddresses, balances)

\* Receipts handed to parseBalancesFromReceipt.  An element of a structured
\* return is a variant with its fields, or null.
\* The value of a field is a text, or the JSON `true` of a Bool.
True == [tag |-> "boolean", b |-> TRUE]
FieldLists ==
  { Undefined, Arr(<<[value |-> Str("5")]>>), Arr(<<[value |-> Str("7")]>>),
    Arr(<<[value |-> Str("")]>>), Arr(<<[value |-> True]>>) }
Variants ==
  { [id |-> Str("1"), name |-> Undefined],
    [id |-> Str("0"), name |-> Str("Some")],
    [id |-> Str("0"), name |-> Str("None")],
    [id |-> Undefined, name |-> Undefined] }
Elements ==
  { [variant_id |-> v.id, variant_name |-> v.name, fields |-> f] :
      v \in Variants, f \in FieldLists } \cup { Null }
ElementLists == UNION { [1..n -> Elements] : n \in 0..MaxElements }
ProgrammaticJsons ==
  { [tag |-> "object", elements |-> Arr(l), fields |-> Undefined] : l \in ElementLists }
    \cup { [tag |-> "object", elements |-> Undefined, fields |-> Arr(l)] : l \in ElementLists }
    \cup { [tag |-> "object", elements |-> Undefined, fields |-> Undefined],
           Undefined, Null }
Outputs == { [programmatic_json |-> pj] : pj \in ProgrammaticJsons } \cup { Null }
OtherOutput ==
  [programmatic_json |->
     [tag |-> "object",
      elements |-> Arr(<<[variant_id |-> Str("1"), variant_name |-> Str("Some"),
                          fields |-> Arr(<<[value |-> Str("9")]>>)]>>),
      fields |-> Undefined]]
OutputLists ==
  { Arr(<<o>>) : o \in Outputs } \cup { Arr(<<OtherOutput, o>>) : o \in Outputs }
    \cup { Arr(<<>>), Undefined }
Receipts ==
  { [status |-> Str("Succeeded"), output |-> o] : o \in OutputLists }
    \cup { [status |-> st, output |-> Arr(<<OtherOutput>>)] :
             st \in { Str("Failed"), Undefined } }
    \cup { Null, Undefined }

\* parseBalancesFromReceipt(receipt, resourceAddresses) is called and
\* returns.
DoParse ==
  /\ parseIn.status = "given"
  /\ parseOut = NoParse
  /\ parseOut' = [status |-> "returned",
                  balances |-> ParseBalancesFromReceipt(
                                 parseIn.receipt, parseIn.resourceAddresses)]
  /\ UNCHANGED <<now, gatewayVars, cacheVars, resolverVars, parseIn, appVars>>

\* ------------------------------------------------------ decimal amounts
\* Amounts and balances are decimal texts.  The numbers they denote are
\* counted in halves, on which the arithmetic of doubles is exact: Text(h)
\* is what Number.prototype.toString prints for h halves.
Numerals ==
  << "0", "1", "2", "3", "4", "5", "6", "7", "8", "9", "10",
     "11", "12", "13", "14", "15", "16", "17", "18", "19", "20" >>
Halves == 0..(2 * (Len(Numerals) - 1))
Text(h) ==
  IF h % 2 = 0 THEN Numerals[(h \div 2) + 1]
  ELSE Numerals[(h \div 2) + 1] \o ".5"

\* parseFloat(text): a number of halves, or NaN.
NaN == [tag |-> "NaN"]
Halved(h) == [tag |-> "number", halves |-> h]
ParseFloat(text) ==
  IF \E h \in Halves : Text(h) = text
  THEN Halved(CHOOSE h \in Halves : Text(h) = text)
  ELSE IF \E h \in Halves : ("-" \o Text(h)) = text
  THEN Halved(0 - (CHOOSE h \in Halves : ("-" \o Text(h)) = text))
  ELSE NaN

\* `x || 0` on a number.
OrZero(x) == IF x = NaN THEN 0 ELSE x.halves

\* validateAmount(value, maxAmount, divisibility) of utils.js, `.valid`.
\* Every text typed matches the decimal pattern and has at most one
\* decimal place; divisibility is 18 unless the resource says otherwise.
divisibility == 18
DecimalPlaces(value) ==
  IF ParseFloat(value) # NaN /\ ParseFloat(value).halves % 2 # 0 THEN 1 ELSE 0
ValidateAmount(value, maxAmount) ==
  /\ value # ""
  /\ ParseFloat(value) # NaN
  /\ ParseFloat(value).halves > 0
  /\ DecimalPlaces(value) <= divisibility
  /\ \/ maxAmount = Null
     \/ ParseFloat(maxAmount.s) = NaN
     \/ ParseFloat(value).halves <= ParseFloat(maxAmount.s).halves

\* ----------------------------------------------- ModalUI.updateCaveBalance
\* updateCaveBalance(resourceAddress, amountChange) on the snapshot
\* caveBalancesData.
UpdateUnclamped(balances, resourceAddress, amountChange) ==
  IF balances[resourceAddress] \in {Undefined, Null} THEN balances
  ELSE [balances EXCEPT ![resourceAddress] =
          LET sum == OrZero(ParseFloat(balances[resourceAddress].s))
                       + OrZero(ParseFloat(amountChange))
          IN  Str(IF sum < 0 THEN "-" \o Text(0 - sum) ELSE Text(sum))]
\* An update that returns early for undefined only and counts null as 0.
UpdateNullAsZero(balances, resourceAddress, amountChange) ==
  IF balances[resourceAddress] = Undefined THEN balances
  ELSE [balances EXCEPT ![resourceAddress] =
          Str(Text(Max(0, (IF balances[resourceAddress] = Null THEN 0
                           ELSE OrZero(ParseFloat(balances[resourceAddress].s)))
                            + OrZero(ParseFloat(amountChange)))))]
UpdateFabricating(balances, resourceAddress, amountChange) ==
  [balances EXCEPT ![resourceAddress] =
     Str(Text(Max(0, (IF balances[resourceAddress] \in {Undefined, Null} THEN 0
                      ELSE OrZero(ParseFloat(balances[resourceAddress].s)))
                       + OrZero(ParseFloat(amountChange)))))]
UpdateCaveBalance(balances, resourceAddress, amountChange) ==
  IF balances[resourceAddress] \in {Undefined, Null} THEN balances
  ELSE LET currentBalance == OrZero(ParseFloat(balances[resourceAddress].s))
           change == OrZero(ParseFloat(amountChange))
           newBalance == Max(0, currentBalance + change)
       IN  [balances EXCEPT ![resourceAddress] = Str(Text(newBalance))]

\* ------------------------------------------------------ main.js and ui.js
\* NFTs the account holds, amounts the user types, the amount of each
\* resource in the account, the account lists the wallet shares.
Nfts == {"nft_1"}
Typed == {"3", "5"}
walletAmount == Str("5")
AccountLists ==
  { l \in UNION { [1..n -> Accounts] : n \in 0..2 } : Distinct(l) = l }
\* The resource the transactions move; the other one stands for any other.
Moved == {resource_a}

\* `this.caveBalancesData = {}`
NoBalances == [a \in Addrs |-> Undefined]

Idle(calls_) == { i \in DOMAIN calls_ : calls_[i] = NoCall }
\* The calls in flight, and the slot a new call takes.
InFlight(calls_) == { i \in DOMAIN calls_ : calls_[i] \notin {NoCall, Done} }
Free(calls_, i, alone) ==
  /\ i \in Idle(calls_)
  /\ \A j \in Idle(calls_) : i <= j
  /\ InFlight(looks) = {}
  /\ Cardinality(InFlight(opens)) + Cardinality(InFlight(txs))
       < (IF alone THEN 1 ELSE MaxPending)
NoRecon == [mode |-> "none"]

\* The keys under which the session cache holds an item.
Held(d) == { k \in DOMAIN d : d[k] # NoItem }

\* The frame of the actions of main.js and ui.js.
appFrame ==
  <<now, gatewayVars, resolverVars, parseIn, parseOut, probe, lastOp, lastSet>>

\* updateSubmitButton(): the value it gives this.submitBtn.disabled.
MaxAmountOf(m, balances, r) ==
  IF m = "out"
  THEN IF balances[r.resourceAddress] \notin {Undefined, Null}
       THEN balances[r.resourceAddress] ELSE Null
  ELSE walletAmount
UpdateSubmitButton(m, nft, list, balances) ==
  IF nft = Null THEN TRUE
  ELSE ~ ( /\ Len(list) > 0
           /\ m # "look" =>
                \A i \in 1..Len(list) :
                  ValidateAmount(list[i].amount, MaxAmountOf(m, balances, list[i])) )

\* walletData$ emits the accounts the wallet shares: onAccountConnected,
\* or onAccountDisconnected when there is none.
WalletData(accounts) ==
  /\ allAccounts' = accounts
  /\ currentAccount' =
       IF Len(accounts) = 0 THEN Null
       ELSE IF currentAccount = Null \/ currentAccount.v \notin Range(accounts)
       THEN Obj(accounts[1])
       ELSE currentAccount
  /\ data' = SessionClear(data)
  /\ shown' = IF Len(accounts) = 0 THEN FALSE ELSE shown
  /\ UNCHANGED <<appFrame, storage, opens, txs, looks, mode, selectedNftData,
                 selectedResourcesList, submitDisabled, hasLookedUp,
                 caveBalancesData, previewedFor>>
  /\ lastRecon' = NoRecon

\* A click on an item of the account dropdown; the modal covers the page
\* while it is shown.
SelectAccount(address) ==
  /\ ~shown
  /\ currentAccount # Null
  /\ address \in Range(allAccounts)
  /\ currentAccount' = Obj(address)
  /\ data' = SessionClear(data)
  /\ UNCHANGED <<appFrame, storage, allAccounts, opens, txs, looks, modalVars>>
  /\ lastRecon' = NoRecon

\* openModal(mode) up to its first await.
OpenModalBegin(i, m) ==
  /\ ~shown
  /\ currentAccount # Null
  /\ Free(opens, i, FALSE)
  /\ opens' = [opens EXCEPT ![i] =
                 [pc |-> "loading", mode |-> m, account |-> currentAccount.v]]
  /\ UNCHANGED <<appFrame, storage, data, currentAccount, allAccounts, txs,
                 looks, modalVars>>
  /\ lastRecon' = NoRecon

\* The session keys the resolvers openModal(mode) awaits store under.
KeysOf(m, account) ==
  IF m = "in" THEN { FungiblesKey(account), NftsKey(account) }
  ELSE { NftsKey(account), CaveTokensKey }

\* ModalUI.show(mode, nftCollections, fungibles)
Show(m) ==
  /\ mode' = m
  /\ selectedResourcesList' = <<>>
  /\ hasLookedUp' = IF m = "look" THEN FALSE ELSE hasLookedUp
  /\ caveBalancesData' = IF m = "look" THEN NoBalances ELSE caveBalancesData
  /\ previewedFor' = IF m = "look" THEN Null ELSE previewedFor
  /\ submitDisabled' = UpdateSubmitButton(m, selectedNftData, <<>>, caveBalancesData')
  /\ shown' = TRUE
  /\ UNCHANGED selectedNftData

\* The resolvers openModal awaits have settled: the ones in `stored` have
\* put their result in the session cache; with every account resolver
\* fulfilled and an NFT in the account the modal is shown, else a status is.
OpenModalLoaded(i, stored, shows) ==
  /\ opens[i] # NoCall
  /\ stored \in { {}, KeysOf(opens[i].mode, opens[i].account) }
  /\ shows => (KeysOf(opens[i].mode, opens[i].account) \ {CaveTokensKey}) \subseteq
                (stored \cup Held(data))
  /\ data' = [k \in DOMAIN data |->
                IF k \in stored
                THEN SessionSet(data, k, Arr(<<Str(k[1])>>), accountResourcesTtl, now)[k]
                ELSE data[k]]
  /\ opens' = [opens EXCEPT ![i] = NoCall]
  /\ IF shows THEN Show(opens[i].mode) ELSE UNCHANGED modalVars
  /\ UNCHANGED <<appFrame, storage, currentAccount, allAccounts, txs, looks>>
  /\ lastRecon' = NoRecon

\* ModalUI.hide(): the close button, Escape, a click beside the dialog.
Hide ==
  /\ shown
  /\ shown' = FALSE
  /\ UNCHANGED <<appFrame, storage, data, mainVars, mode, selectedNftData,
                 selectedResourcesList, submitDisabled, hasLookedUp,
                 caveBalancesData, previewedFor>>
  /\ lastRecon' = NoRecon

\* ModalUI.selectNft
SelectNft(nft) ==
  /\ shown
  /\ selectedNftData' = Obj(nft)
  /\ submitDisabled' = UpdateSubmitButton(mode, Obj(nft), selectedResourcesList,
                                          caveBalancesData)
  /\ UNCHANGED <<appFrame, storage, data, mainVars, mode, shown,
                 selectedResourcesList, hasLookedUp, caveBalancesData,
                 previewedFor>>
  /\ lastRecon' = NoRecon

\* ModalUI.addResource: the dropdown offers the resources not yet selected.
AddResource(address) ==
  /\ shown
  /\ Len(selectedResourcesList) < (IF mode = "look" THEN MaxAddrs ELSE MaxMoved)
  /\ mode # "look" => address \in Moved
  /\ \A i \in 1..Len(selectedResourcesList) :
       selectedResourcesList[i].resourceAddress # address
  /\ selectedResourcesList' =
       Append(selectedResourcesList, [resourceAddress |-> address, amount |-> ""])
  /\ submitDisabled' = UpdateSubmitButton(mode, selectedNftData,
                                          selectedResourcesList', caveBalancesData)
  /\ UNCHANGED <<appFrame, storage, data, mainVars, mode, shown, selectedNftData,
                 hasLookedUp, caveBalancesData,
                 previewedFor>>
  /\ lastRecon' = NoRecon

\* The remove button of a selected resource: splice(idx, 1).
RemoveResource(idx) ==
  /\ shown
  /\ idx \in 1..Len(selectedResourcesList)
  /\ selectedResourcesList' =
       SubSeq(selectedResourcesList, 1, idx - 1)
         \o SubSeq(selectedResourcesList, idx + 1, Len(selectedResourcesList))
  /\ submitDisabled' = UpdateSubmitButton(mode, selectedNftData,
                                          selectedResourcesList', caveBalancesData)
  /\ UNCHANGED <<appFrame, storage, data, mainVars, mode, shown, selectedNftData,
                 hasLookedUp, caveBalancesData,
                 previewedFor>>
  /\ lastRecon' = NoRecon

\* The input handler of an amount field, with the updateSubmitButton it
\* requests for the next frame.
EditAmount(idx, value) ==
  /\ shown
  /\ mode # "look"
  /\ idx \in 1..Len(selectedResourcesList)
  /\ selectedResourcesList' = [selectedResourcesList EXCEPT ![idx].amount = value]
  /\ submitDisabled' = UpdateSubmitButton(mode, selectedNftData,
                                          selectedResourcesList', caveBalancesData)
  /\ UNCHANGED <<appFrame, storage, data, mainVars, mode, shown, selectedNftData,
                 hasLookedUp, caveBalancesData,
                 previewedFor>>
  /\ lastRecon' = NoRecon

\* handleSubmit(): handleLookup(data) or handleTransaction(data) up to the
\* first await.  Both return at once without an account, an NFT or a
\* resource; else setLoading(true) and the call is sent.
HandleSubmit(i) ==
  /\ shown
  /\ ~submitDisabled
  /\ IF currentAccount = Null \/ selectedNftData = Null
        \/ Len(selectedResourcesList) = 0
     THEN UNCHANGED <<txs, looks, submitDisabled>>
     ELSE /\ submitDisabled' = TRUE
          /\ IF mode = "look"
             THEN /\ Free(looks, i, TRUE)
                  /\ looks' = [looks EXCEPT ![i] =
                       [pc |-> "preview", nft |-> selectedNftData,
                        resourceAddresses |->
                          [j \in 1..Len(selectedResourcesList) |->
                             selectedResourcesList[j].resourceAddress]]]
                  /\ UNCHANGED txs
             ELSE /\ Free(txs, i, FALSE)
                  /\ txs' = [txs EXCEPT ![i] =
                       [pc |-> "sent", mode |-> mode, account |-> currentAccount.v,
                        nft |-> selectedNftData,
                        resources |-> selectedResourcesList]]
                  /\ UNCHANGED looks
  /\ UNCHANGED <<appFrame, storage, data, currentAccount, allAccounts, opens,
                 mode, shown, selectedNftData, selectedResourcesList,
                 hasLookedUp, caveBalancesData,
                 previewedFor>>
  /\ lastRecon' = NoRecon

\* `for (const resource of resources) modalUI.updateCaveBalance(...)`, from
\* the i-th resource on; sign is "" for IN and "-" for OUT.
RECURSIVE UpdateAll(_, _, _, _)
UpdateAll(balances, resources, i, sign) ==
  IF i > Len(resources) THEN balances
  ELSE UpdateAll(UpdateCaveBalance(balances, resources[i].resourceAddress,
                                   sign \o resources[i].amount),
                 resources, i + 1, sign)

\* The session keys handleTransaction removes after a transaction of the
\* mode, `currentAccount` being the account active when the wallet answers.
Invalidated(m, account) ==
  IF m = "in"
  THEN { FungiblesKey(account), NftsKey(account), CaveTokensKey }
  ELSE { FungiblesKey(account), NftsKey(account) }

RECURSIVE RemoveAll(_, _)
RemoveAll(d, keys) ==
  IF keys = {} THEN d
  ELSE LET k == CHOOSE k \in keys : TRUE
       IN  RemoveAll(SessionRemove(d, k), keys \ {k})

\* The wallet and the ledger accept a manifest only if each of its amounts
\* is a positive decimal.
Executable(resources) ==
  \A j \in 1..Len(resources) :
    /\ ParseFloat(resources[j].amount) # NaN
    /\ ParseFloat(resources[j].amount).halves > 0

\* A handler whose catch clause reconciles as the success branch does.
TxResultReconcilingErrors(i, isErr) ==
  /\ txs[i] # NoCall
  /\ txs[i] # Done
  /\ isErr \/ Executable(txs[i].resources)
  /\ txs' = [txs EXCEPT ![i] = Done]
  /\ submitDisabled' = FALSE
  /\ caveBalancesData' =
       UpdateAll(caveBalancesData, txs[i].resources, 1,
                 IF txs[i].mode = "in" THEN "" ELSE "-")
  /\ IF currentAccount = Null
     THEN UNCHANGED <<data, shown>>
     ELSE /\ data' = RemoveAll(data, Invalidated(txs[i].mode, currentAccount.v))
          /\ shown' = FALSE
  /\ lastRecon' = IF isErr THEN NoRecon
                  ELSE [mode |-> txs[i].mode, account |-> txs[i].account,
                        nft |-> txs[i].nft,
                        active |-> currentAccount,
                        resources |-> txs[i].resources,
                        before |-> caveBalancesData,
                        heldBefore |-> Held(data)]
  /\ UNCHANGED <<appFrame, storage, currentAccount, allAccounts, opens, looks,
                 mode, selectedNftData, selectedResourcesList, hasLookedUp,
                 previewedFor>>

\* sendTransaction answers call i.  An error result is thrown to the catch
\* clause.  On success the balances are updated, then the session keys are
\* removed and the modal hidden; reading `currentAccount.address` of a null
\* account throws after the balances were updated.  setLoading(false) ends
\* the call in every case.
TxResult(i, isErr) ==
  /\ txs[i] # NoCall
  /\ txs[i] # Done
  /\ isErr \/ Executable(txs[i].resources)
  /\ txs' = [txs EXCEPT ![i] = Done]
  /\ submitDisabled' = FALSE
  /\ IF isErr
     THEN /\ UNCHANGED <<caveBalancesData, data, shown>>
          /\ lastRecon' = NoRecon
     ELSE /\ caveBalancesData' =
               UpdateAll(caveBalancesData, txs[i].resources, 1,
                         IF txs[i].mode = "in" THEN "" ELSE "-")
          /\ IF currentAccount = Null
             THEN UNCHANGED <<data, shown>>
             ELSE /\ data' = RemoveAll(data, Invalidated(txs[i].mode, currentAccount.v))
                  /\ shown' = FALSE
          /\ lastRecon' = [mode |-> txs[i].mode, account |-> txs[i].account,
                           nft |-> txs[i].nft,
                           active |-> currentAccount,
                           resources |-> txs[i].resources,
                           before |-> caveBalancesData,
                           heldBefore |-> Held(data)]
  /\ UNCHANGED <<appFrame, storage, currentAccount, allAccounts, opens, looks,
                 mode, selectedNftData, selectedResourcesList, hasLookedUp,
                 previewedFor>>

\* Receipts previewTransaction returns for the manifest of a lookup: one
\* element per queried address, or a failed receipt.
PreviewElements ==
  { [variant_id |-> Str("1"), variant_name |-> Str("Some"),
     fields |-> Arr(<<[value |-> Str(v)]>>)] : v \in {"5"} }
    \cup { [variant_id |-> Str("0"), variant_name |-> Str("None"),
            fields |-> Arr(<<>>)] }
PreviewReceipts(n) ==
  { [status |-> Str("Succeeded"),
     output |-> Arr(<<[programmatic_json |->
                         [tag |-> "object", elements |-> Arr(l),
                          fields |-> Undefined]]>>)] : l \in [1..n -> PreviewElements] }
    \cup { [status |-> Str("Failed"), output |-> Undefined] }

\* previewTransaction settles for lookup i: parseBalancesFromReceipt of the
\* receipt, then getResourceMetadata is awaited; or the catch clause.
LookPreviewed(i, fails) ==
  /\ looks[i] # NoCall
  /\ looks[i].pc = "preview"
  /\ IF fails
     THEN /\ looks' = [looks EXCEPT ![i] = NoCall]
          /\ submitDisabled' = FALSE
     ELSE /\ \E receipt \in PreviewReceipts(Len(looks[i].resourceAddresses)) :
               looks' = [looks EXCEPT ![i] =
                 [pc |-> "metadata", nft |-> looks[i].nft,
                  resourceAddresses |-> looks[i].resourceAddresses,
                  balances |-> ParseBalancesFromReceipt(
                                 receipt, looks[i].resourceAddresses)]]
          /\ UNCHANGED submitDisabled
  /\ UNCHANGED <<appFrame, storage, data, currentAccount, allAccounts, opens,
                 txs, mode, shown, selectedNftData, selectedResourcesList,
                 hasLookedUp, caveBalancesData,
                 previewedFor>>
  /\ lastRecon' = NoRecon

\* getResourceMetadata settles for lookup i, having cached what it fetched:
\* ModalUI.renderBalances(balances, metadata); or the catch clause.
LookRendered(i, fails) ==
  /\ looks[i] # NoCall
  /\ looks[i].pc = "metadata"
  /\ looks' = [looks EXCEPT ![i] = NoCall]
  /\ submitDisabled' = FALSE
  /\ IF fails
     THEN UNCHANGED <<storage, hasLookedUp, caveBalancesData, previewedFor>>
     ELSE /\ storage' = Store(PlainItems(looks[i].resourceAddresses), 1,
                              [results |-> NoResults, storage |-> storage,
                               written |-> {}], FALSE).storage
          /\ hasLookedUp' = TRUE
          /\ caveBalancesData' = looks[i].balances
          /\ previewedFor' = looks[i].nft
  /\ UNCHANGED <<appFrame, data, currentAccount, allAccounts, opens, txs, mode,
                 shown, selectedNftData, selectedResourcesList>>
  /\ lastRecon' = NoRecon

\* One millisecond passes.
Tick ==
  /\ now < MaxNow
  /\ now' = now + 1
  /\ recent' = Aged(recent)
  /\ UNCHANGED <<rlVars, gwVars, opVars, calls, inWindow, acqCount, httpCount,
                 windowEndAtCall, resetSeen, early, slept>>
  /\ UNCHANGED <<cacheVars, metaVars, pageVars, uiVars>>

\* `on`: whether the behaviour keeps the log of the recent acquisitions.
InitGatewayLog(on) ==
  /\ tokens = maxRequests
  /\ lastRefill = 1
  /\ pc = [t \in Tasks |-> "idle"]
  /\ wakeAt = [t \in Tasks |-> 0]
  /\ req = [t \in Tasks |-> NoReq]
  /\ resp = [t \in Tasks |-> NoResp]
  /\ calls = [t \in Tasks |-> 0]
  /\ op = [t \in Tasks |-> "none"]
  /\ runs = [t \in Tasks |-> 0]
  /\ result = [t \in Tasks |-> NoResult]
  /\ inWindow = 0
  /\ recent = EmptyLog(on)
  /\ acqCount = [t \in Tasks |-> 0]
  /\ httpCount = [t \in Tasks |-> 0]
  /\ windowEndAtCall = [t \in Tasks |-> 0]
  /\ resetSeen = [t \in Tasks |-> TRUE]
  /\ early = [t \in Tasks |-> FALSE]
  /\ slept = [t \in Tasks |-> FALSE]

InitGateway == InitGatewayLog(FALSE)

InitCaches ==
  /\ storage = [k \in StorageKeys |-> IF k \in OwnStorageKeys THEN Absent ELSE Foreign]
  /\ data = [k \in SessionKeys |-> NoItem]
  /\ probe = [cache |-> "none", key |-> NoKey]
  /\ lastOp = NoOp
  /\ lastSet = [c \in {"cache", "sessionCache"} |->
                 [k \in (IF c = "cache" THEN DurableKeys ELSE SessionKeys) |-> NoSet]]

InitMeta ==
  /\ askedAtCall = [t \in Tasks |-> {}]
  /\ results = [t \in Tasks |-> NoResults]
  /\ ttlCfg = Infinity
  /\ readableAtCall = [t \in Tasks |-> {}]
  /\ written = {}
  /\ writtenAtCall = [t \in Tasks |-> {}]

InitPages ==
  /\ cacheKey = [t \in Tasks |-> NoKey]
  /\ cursor = [t \in Tasks |-> Null]
  /\ items = [t \in Tasks |-> <<>>]
  /\ pageHist = [t \in Tasks |-> NoPages]

InitApp ==
  /\ currentAccount = Null
  /\ allAccounts = <<>>
  /\ opens = [i \in 1..MaxOpens |-> NoCall]
  /\ txs = [i \in 1..MaxTx |-> NoCall]
  /\ looks = [i \in 1..MaxLooks |-> NoCall]
  /\ mode = "null"
  /\ shown = FALSE
  /\ selectedNftData = Null
  /\ selectedResourcesList = <<>>
  /\ submitDisabled = FALSE
  /\ hasLookedUp = FALSE
  /\ caveBalancesData = NoBalances
  /\ previewedFor = Null
  /\ lastRecon = NoRecon

InitUi ==
  /\ parseIn = NoParse
  /\ parseOut = NoParse
  /\ InitApp

Init ==
  /\ now = 1
  /\ InitGateway
  /\ InitCaches
  /\ InitMeta
  /\ InitPages
  /\ InitUi

Next ==
  \/ \E t \in Tasks : PreviewBegin(t)
  \/ \E t \in Tasks : PreviewStatusReturned(t)
  \/ \E t \in Tasks : PreviewEnd(t)
  \/ \E t \in Tasks : AcquireRetry(t)
  \/ \E t \in Tasks : StartFetch(t)
  \/ \E t \in Tasks : Respond(t, SomeFailures)
  \/ Tick

Spec == Init /\ [][Next]_vars

\* The same callers, the log of the recent acquisitions kept.
InitWindow ==
  /\ now = 1
  /\ InitGatewayLog(TRUE)
  /\ InitCaches
  /\ InitMeta
  /\ InitPages
  /\ InitUi

WindowSpec == InitWindow /\ [][Next]_vars

\* gatewayFetch under every failure of the network.
FetchNext ==
  \/ \E t \in Tasks : PreviewBegin(t)
  \/ \E t \in Tasks : PreviewStatusReturned(t)
  \/ \E t \in Tasks : PreviewEnd(t)
  \/ \E t \in Tasks : AcquireRetry(t)
  \/ \E t \in Tasks : StartFetch(t)
  \/ \E t \in Tasks : Respond(t, Failures)
  \/ Tick

FetchSpec == Init /\ [][FetchNext]_vars

\* ------------------------------------------------ time without an end
\* The clock has reached MaxNow: one more millisecond passes, written as a
\* shift of every stored instant by one (an instant already MaxNow or more
\* in the past stays at 0).  The code reads the clock only through
\* `now - lastRefill` and the timers, so the shift keeps its behaviour as
\* long as MaxNow >= windowMs.
Shift(x) == Max(0, x - 1)

Rebase ==
  /\ now = MaxNow
  /\ lastRefill' = Shift(lastRefill)
  /\ wakeAt' = [t \in Tasks |-> Shift(wakeAt[t])]
  /\ windowEndAtCall' = [t \in Tasks |-> Shift(windowEndAtCall[t])]
  /\ recent' = Aged(recent)
  /\ UNCHANGED <<now, tokens, pc, req, resp, calls, inWindow, acqCount,
                 httpCount, resetSeen, early, slept, opVars>>
  /\ UNCHANGED nonGatewayVars

FairNext == Next \/ Rebase

\* Time keeps advancing and a due timer eventually fires.
FairSpec ==
  /\ Init
  /\ [][FairNext]_vars
  /\ WF_vars(Tick \/ Rebase)
  /\ \A t \in Tasks : WF_vars(AcquireRetry(t))

\* The caches under arbitrary callers.  The two caches share no state and
\* neither do two keys of one cache, so each behaviour follows the calls
\* made on one key of one cache (with the clear of the whole cache).
Probes ==
  { [cache |-> "cache", key |-> k] : k \in DurableKeys }
    \cup { [cache |-> "sessionCache", key |-> k] : k \in SessionKeys }

InitCacheSpec ==
  /\ now = 1
  /\ InitGateway
  /\ storage = [k \in StorageKeys |-> IF k \in OwnStorageKeys THEN Absent ELSE Foreign]
  /\ data = [k \in SessionKeys |-> NoItem]
  /\ probe \in Probes
  /\ lastOp = NoOp
  /\ lastSet = [c \in {"cache", "sessionCache"} |->
                 [k \in (IF c = "cache" THEN DurableKeys ELSE SessionKeys) |-> NoSet]]
  /\ InitMeta
  /\ InitPages
  /\ InitUi

CacheNext ==
  \/ \E f \in BOOLEAN :
        probe.cache = "cache" /\ DoCacheGet(probe.key, f)
  \/ \E v \in Values \cup {Circular}, ttl \in Ttls, q \in BOOLEAN :
        probe.cache = "cache" /\ DoCacheSet(probe.key, v, ttl, q)
  \/ probe.cache = "cache" /\ DoCacheRemove(probe.key)
  \/ probe.cache = "cache" /\ DoCacheClearAll
  \/ probe.cache = "cache" /\ StorageCorrupt(probe.key)
  \/ probe.cache = "sessionCache" /\ DoSessionGet(probe.key)
  \/ \E v \in Values, ttl \in Ttls :
        probe.cache = "sessionCache" /\ DoSessionSet(probe.key, v, ttl)
  \/ probe.cache = "sessionCache" /\ DoSessionRemove(probe.key)
  \/ probe.cache = "sessionCache" /\ DoSessionClear
  \/ Tick

CacheSpec == InitCacheSpec /\ [][CacheNext]_vars

\* getResourceMetadata under concurrent callers, with the configured
\* time-to-live of resource metadata being the shipped Infinity or a
\* finite number of milliseconds.
InitMetaSpec ==
  /\ now = 1
  /\ InitGateway
  /\ InitCaches
  /\ askedAtCall = [t \in Tasks |-> {}]
  /\ results = [t \in Tasks |-> NoResults]
  /\ ttlCfg \in { Infinity, Num(MaxTtl) }
  /\ InitPages
  /\ InitUi
  /\ readableAtCall = [t \in Tasks |-> {}]
  /\ written = {}
  /\ writtenAtCall = [t \in Tasks |-> {}]

MetaNext ==
  \/ \E t \in Tasks, addresses \in AddressLists : MetaBegin(t, addresses)
  \/ \E t \in Tasks, quota \in BOOLEAN : MetaResponse(t, quota)
  \/ \E t \in Tasks : MetaFailed(t)
  \/ \E t \in Tasks : AcquireRetry(t)
  \/ \E t \in Tasks : StartFetch(t)
  \/ \E t \in Tasks : Respond(t, SomeFailures)
  \/ Tick

MetaSpec == InitMetaSpec /\ [][MetaNext]_vars

\* getResourceMetadata of one resource whose metadata and details change
\* between the calls.
DetailNext ==
  \/ MetaBegin(1, <<resource_a>>)
  \/ \E t \in Tasks, quota \in BOOLEAN : MetaResponse(t, quota)
  \/ \E t \in Tasks : MetaFailed(t)
  \/ \E t \in Tasks : AcquireRetry(t)
  \/ \E t \in Tasks : StartFetch(t)
  \/ \E t \in Tasks : Respond(t, SomeFailures)
  \/ \E t \in Tasks : RespondDetails(t)
  \/ Tick

DetailSpec == InitMetaSpec /\ [][DetailNext]_vars

\* parseBalancesFromReceipt applied once to any receipt and address list.
InitParseSpec ==
  /\ now = 1
  /\ InitGateway
  /\ InitCaches
  /\ InitMeta
  /\ InitPages
  /\ parseIn \in { [status |-> "given", receipt |-> r, resourceAddresses |-> l] :
                     r \in Receipts, l \in AddressLists }
  /\ parseOut = NoParse
  /\ InitApp

ParseNext == DoParse

ParseSpec == InitParseSpec /\ [][ParseNext]_vars

\* The page of a wallet that shares one account: the modal, the
\* transactions and the lookups.
AppNext ==
  \/ \E accounts \in {<<>>, <<"account_1">>} : WalletData(accounts)
  \/ \E address \in Accounts : SelectAccount(address)
  \/ \E i \in 1..MaxOpens, m \in {"in", "out", "look"} : OpenModalBegin(i, m)
  \/ \E i \in 1..MaxOpens, stored \in SUBSET SessionKeys, shows \in BOOLEAN :
       OpenModalLoaded(i, stored, shows)
  \/ Hide
  \/ \E nft \in Nfts : SelectNft(nft)
  \/ \E address \in Addrs : AddResource(address)
  \/ \E idx \in 1..MaxAddrs : RemoveResource(idx)
  \/ \E idx \in 1..MaxAddrs, value \in Typed : EditAmount(idx, value)
  \/ \E i \in 1..Max(MaxTx, MaxLooks) : HandleSubmit(i)
  \/ \E i \in 1..MaxTx, isErr \in BOOLEAN : TxResult(i, isErr)
  \/ \E i \in 1..MaxLooks, fails \in BOOLEAN : LookPreviewed(i, fails)
  \/ \E i \in 1..MaxLooks, fails \in BOOLEAN : LookRendered(i, fails)

\* The page is loaded in a browser whose localStorage holds the metadata
\* of the resources from an earlier visit.
InitAppSpec ==
  /\ now = 1
  /\ InitGateway
  /\ InitMeta
  /\ InitPages
  /\ InitUi
  /\ storage = [k \in StorageKeys |->
                  IF k \in OwnStorageKeys
                  THEN JsonStringify([value |-> ResourceData(PlainItem(k[3])),
                                      expiry |-> Plus(now, ttlCfg)])
                  ELSE Foreign]
  /\ data = [k \in SessionKeys |-> NoItem]
  /\ probe = [cache |-> "none", key |-> NoKey]
  /\ lastOp = NoOp
  /\ lastSet = [c \in {"cache", "sessionCache"} |->
                 [k \in (IF c = "cache" THEN DurableKeys ELSE SessionKeys) |-> NoSet]]

AppSpec == InitAppSpec /\ [][AppNext]_vars

\* The page of a wallet that shares any accounts, the user looking into
\* the cave and switching between the accounts.
SwitchNext ==
  \/ \E accounts \in AccountLists : WalletData(accounts)
  \/ \E address \in Accounts : SelectAccount(address)
  \/ \E i \in 1..MaxOpens : OpenModalBegin(i, "look")
  \/ \E i \in 1..MaxOpens, stored \in SUBSET SessionKeys, shows \in BOOLEAN :
       OpenModalLoaded(i, stored, shows)
  \/ Hide
  \/ \E nft \in Nfts : SelectNft(nft)
  \/ \E address \in Addrs : AddResource(address)
  \/ \E idx \in 1..MaxAddrs : RemoveResource(idx)
  \/ \E i \in 1..MaxLooks : HandleSubmit(i)
  \/ \E i \in 1..MaxLooks, fails \in BOOLEAN : LookPreviewed(i, fails)
  \/ \E i \in 1..MaxLooks, fails \in BOOLEAN : LookRendered(i, fails)

SwitchSpec == InitAppSpec /\ [][SwitchNext]_vars

\* The page of a wallet that shares any accounts, the user moving
\* resources in and out without looking into the cave first.
MoveNext ==
  \/ \E accounts \in AccountLists : WalletData(accounts)
  \/ \E address \in Accounts : SelectAccount(address)
  \/ \E i \in 1..MaxOpens, m \in {"in", "out"} : OpenModalBegin(i, m)
  \/ \E i \in 1..MaxOpens, stored \in SUBSET SessionKeys, shows \in BOOLEAN :
       OpenModalLoaded(i, stored, shows)
  \/ Hide
  \/ \E nft \in Nfts : SelectNft(nft)
  \/ \E address \in Addrs : AddResource(address)
  \/ \E idx \in 1..MaxAddrs : RemoveResource(idx)
  \/ \E idx \in 1..MaxAddrs, value \in Typed : EditAmount(idx, value)
  \/ \E i \in 1..MaxTx : HandleSubmit(i)
  \/ \E i \in 1..MaxTx, isErr \in BOOLEAN : TxResult(i, isErr)

MoveSpec == InitAppSpec /\ [][MoveNext]_vars

\* The paginated resolvers, called by the tasks of Pagers while the other
\* tasks compete for the rate limiter with previewTransaction calls, under
\* the shipped configuration.
PageNext ==
  \/ \E t \in Pagers, o \in PagedOps, account \in Accounts :
       HoldingsBegin(t, o, account)
  \/ \E t \in Tasks \ Pagers : PreviewBegin(t)
  \/ \E t \in Tasks : PreviewStatusReturned(t)
  \/ \E t \in Tasks : PreviewEnd(t)
  \/ \E t \in Tasks : PageResponse(t)
  \/ \E t \in Tasks : PageFailed(t)
  \/ \E t \in Tasks, quota \in BOOLEAN : MetaResponse(t, quota)
  \/ \E t \in Tasks : MetaFailed(t)
  \/ \E t \in Tasks : AcquireRetry(t)
  \/ \E t \in Tasks : StartFetch(t)
  \/ \E t \in Tasks : Respond(t, SomeFailures)
  \/ Tick

PageSpec == Init /\ [][PageNext]_vars

\* openModal(mode) calls a resolver with `currentAccount.address`; the
\* modal covers the buttons while it is shown.
ResolverCall(t, o) ==
  /\ ~shown
  /\ currentAccount # Null
  /\ HoldingsBegin(t, o, currentAccount.v)

\* The resolvers openModal calls, while the wallet shares other accounts or
\* none and the user switches between the accounts.
GiveUpNext ==
  \/ \E accounts \in AccountLists : WalletData(accounts)
  \/ \E address \in Accounts : SelectAccount(address)
  \/ \E t \in Pagers, o \in PagedOps : ResolverCall(t, o)
  \/ \E t \in Tasks : PageResponse(t)
  \/ \E t \in Tasks : PageFailed(t)
  \/ \E t \in Tasks, quota \in BOOLEAN : MetaResponse(t, quota)
  \/ \E t \in Tasks : MetaFailed(t)
  \/ \E t \in Tasks : AcquireRetry(t)
  \/ \E t \in Tasks : StartFetch(t)
  \/ \E t \in Tasks : Respond(t, SomeFailures)
  \/ Tick

GiveUpSpec == Init /\ [][GiveUpNext]_vars

\* The page of a wallet that shares one account and confirms the
\* transaction, with a Gateway that answers every request: openModal('in')
\* is called twice; getAccountFungibles of the first call is followed
\* request by request (its getAccountNonFungibles has failed, so that call
\* shows a status and no modal), the second call shows the modal and the
\* user moves a resource into the cave.
StaleNext ==
  \/ WalletData(<<"account_1">>)
  \/ \E t \in Pagers : ResolverCall(t, "fungibles")
  \/ \E t \in Tasks : PageResponse(t)
  \/ \E t \in Tasks, quota \in BOOLEAN : MetaResponse(t, quota)
  \/ \E t \in Tasks : AcquireRetry(t)
  \/ \E t \in Tasks : StartFetch(t)
  \/ \E t \in Tasks : Respond(t, {})
  \/ Tick
  \/ \E i \in 1..MaxOpens : OpenModalBegin(i, "in")
  \/ \E i \in 1..MaxOpens, stored \in SUBSET SessionKeys, shows \in BOOLEAN :
       OpenModalLoaded(i, stored, shows)
  \/ \E nft \in Nfts : SelectNft(nft)
  \/ \E address \in Addrs : AddResource(address)
  \/ \E idx \in 1..MaxMoved : EditAmount(idx, "3")
  \/ HandleSubmit(1)
  \/ TxResult(1, FALSE)

StaleSpec == Init /\ [][StaleNext]_vars

\* The page of a wallet that shares one account holding two NFTs, the user
\* looking into the cave of one and taking out of the cave of either.
TwoNfts == Nfts \cup {"nft_2"}

NftNext ==
  \/ WalletData(<<"account_1">>)
  \/ \E i \in 1..MaxOpens, m \in {"out", "look"} : OpenModalBegin(i, m)
  \/ \E i \in 1..MaxOpens, stored \in SUBSET SessionKeys, shows \in BOOLEAN :
       OpenModalLoaded(i, stored, shows)
  \/ Hide
  \/ \E nft \in TwoNfts : SelectNft(nft)
  \/ \E address \in Moved : AddResource(address)
  \/ \E idx \in 1..MaxMoved, value \in Typed : EditAmount(idx, value)
  \/ \E i \in 1..Max(MaxTx, MaxLooks) : HandleSubmit(i)
  \/ \E i \in 1..MaxTx, isErr \in BOOLEAN : TxResult(i, isErr)
  \/ \E i \in 1..MaxLooks, fails \in BOOLEAN : LookPreviewed(i, fails)
  \/ \E i \in 1..MaxLooks, fails \in BOOLEAN : LookRendered(i, fails)

NftSpec == InitAppSpec /\ [][NftNext]_vars

\* ---------------------------------------------------------------- claims
TypeOK ==
  /\ now \in 0..MaxNow
  /\ tokens \in 0..maxRequests
  /\ lastRefill \in 0..MaxNow
  /\ pc \in [Tasks -> {"idle", "sleep", "acquired", "fetching", "ok", "err"}]
  /\ op \in [Tasks -> {"none", "preview", "meta"} \cup PagedOps]
  /\ runs \in [Tasks -> 0..MaxRuns]
  /\ currentAccount \in {Null} \cup { Obj(a) : a \in Accounts }
  /\ allAccounts \in AccountLists
  /\ mode \in {"null", "in", "out", "look"}
  /\ shown \in BOOLEAN
  /\ selectedNftData \in {Null} \cup { Obj(n) : n \in Nfts }
  /\ Len(selectedResourcesList) <= MaxAddrs
  /\ \A i \in 1..Len(selectedResourcesList) :
       /\ selectedResourcesList[i].resourceAddress \in Addrs
       /\ selectedResourcesList[i].amount \in Typed \cup {""}
  /\ submitDisabled \in BOOLEAN
  /\ hasLookedUp \in BOOLEAN
  /\ \A a \in Addrs :
       \/ caveBalancesData[a] \in {Undefined, Null}
       \/ \E h \in Halves : caveBalancesData[a] = Str(Text(h))
  /\ \A i \in 1..MaxTx : txs[i].pc \in {"idle", "sent", "done"}
  /\ \A i \in 1..MaxLooks : looks[i].pc \in {"idle", "preview", "metadata"}
  /\ \A i \in 1..MaxOpens : opens[i].pc \in {"idle", "loading"}

\* C1. Between two consecutive reset points of the window (tokens set back
\* to maxRequests, lastRefill set to now) at most maxRequests acquire()
\* calls complete, whatever the interleaving of callers and timers.
C1_Capacity == inWindow <= maxRequests

\* The budget of a window that began with a reset is used up and a further
\* caller is suspended.
C1_Witness ==
  /\ lastRefill > 1
  /\ inWindow = maxRequests
  /\ \E t \in Tasks : pc[t] = "sleep"

\* C2. Under FairSpec every suspended acquire() eventually resolves with
\* its token taken (an acquire() that does not suspend resolves in the step
\* that calls it), and acquire() never rejects: a gatewayFetch fails only
\* after its HTTP request was started.
C2_AcquireResolves ==
  /\ \A t \in Tasks : (pc[t] = "sleep") ~> (pc[t] = "acquired")
  /\ [](\A t \in Tasks : pc[t] = "err" => httpCount[t] = calls[t])

\* An acquire() that had been suspended has resolved.
C2_Witness == \E t \in Tasks : pc[t] = "acquired" /\ slept[t]

\* C3. An acquire() called when maxRequests acquisitions have completed
\* since the last reset is suspended until the end of that window at least
\* (its timer is due no earlier than lastRefill + windowMs), it does not
\* complete before that instant, and it completes only after a reset.
C3_Throttling ==
  \A t \in Tasks :
    /\ pc[t] = "sleep" => wakeAt[t] >= windowEndAtCall[t]
    /\ pc[t] = "acquired" => ~early[t] /\ resetSeen[t]

\* A call that found the budget used up with the window still open has
\* completed, after having been suspended.
C3_Witness ==
  \E t \in Tasks :
    pc[t] = "acquired" /\ slept[t] /\ windowEndAtCall[t] > 0 /\ resetSeen[t]

\* C4. Every HTTP request of gatewayFetch follows a completed acquire()
\* made for that same call: per task, requests started <= acquisitions
\* completed <= gatewayFetch calls, and a request in flight or answered has
\* used exactly the acquisition of its own call.
C4_Gating ==
  \A t \in Tasks :
    /\ httpCount[t] <= acqCount[t]
    /\ acqCount[t] <= calls[t]
    /\ pc[t] \in {"fetching", "ok", "err"} =>
          httpCount[t] = calls[t] /\ acqCount[t] = calls[t]

\* A status request and a preview request are in flight together, the
\* preview request after the second acquisition of its task.
C4_Witness ==
  \E t, u \in Tasks :
    /\ pc[t] = "fetching" /\ pc[u] = "fetching"
    /\ req[t].endpoint = "/transaction/preview"
    /\ req[u].endpoint = "/status/gateway-status"
    /\ httpCount[t] = 2 /\ acqCount[t] = 2


\* The entry of key k of cache c as the last cache call left it.
EntryPresent(c, k) ==
  IF c = "cache" THEN storage[StorageKey(k)] # Absent ELSE data[k] # NoItem

\* The last cache call is a get of cache c with no injected fault.
PlainGet(c) == lastOp.cache = c /\ lastOp.op = "get" /\ ~lastOp.fault

\* The last set of the key of the last cache call, when it is still in
\* force (no remove, clear or foreign write followed it).
LastSetOfKey == lastSet[lastOp.cache][lastOp.key]

\* C6. In both caches set(k, v, ttl) followed by get(k) at the same
\* instant returns v, for every ttl > 0 and for ttl = Infinity.
C6_RoundTrip ==
  \A c \in {"cache", "sessionCache"} :
    PlainGet(c) /\ LastSetOfKey.live /\ LastSetOfKey.at = lastOp.at =>
      lastOp.result = LastSetOfKey.value

\* C7. For a finite ttl, in both caches: a get(k) at now > setTime + ttl
\* returns null and leaves no entry behind (so do the gets after it); a
\* get(k) at now <= setTime + ttl returns the stored value and leaves the
\* entry in place.
C7_ExpiryAndPurge ==
  \A c \in {"cache", "sessionCache"} :
    PlainGet(c) /\ LastSetOfKey.live /\ LastSetOfKey.ttlMs.tag = "number" =>
      IF lastOp.at > LastSetOfKey.at + LastSetOfKey.ttlMs.n
      THEN lastOp.result = Null /\ ~EntryPresent(c, lastOp.key)
      ELSE lastOp.result = LastSetOfKey.value /\ EntryPresent(c, lastOp.key)

\* A get after the expiry found the entry already purged by an earlier get.
C7_Witness ==
  /\ lastOp.op = "get" /\ ~lastOp.fault
  /\ LastSetOfKey.live
  /\ LastSetOfKey.ttlMs.tag = "number"
  /\ lastOp.at > LastSetOfKey.at + LastSetOfKey.ttlMs.n
  /\ lastOp.result = Null
  /\ ~lastOp.changed

\* C8. No call of cache.set or cache.get throws; a set whose write or
\* serialization failed leaves localStorage as it was; a get whose read or
\* parse failed returns null.
C8_FailureAbsorbed ==
  lastOp.cache = "cache" =>
    /\ ~lastOp.threw
    /\ lastOp.op = "set" /\ lastOp.fault => ~lastOp.changed
    /\ lastOp.op = "get" /\ lastOp.fault => lastOp.result = Null

\* A set failed over an entry written earlier, which is still there.
C8_Witness ==
  /\ lastOp.cache = "cache" /\ lastOp.op = "set" /\ lastOp.fault
  /\ lastSet["cache"][lastOp.key].live
  /\ storage[StorageKey(lastOp.key)] \notin {Absent, Garbage}

\* C9. getResourceMetadata is cache-first and batches: while a call waits
\* for the Gateway it has posted one request, whose address list holds
\* exactly the addresses asked for that the durable cache could not serve
\* when the call began; a finished call made no request if every address
\* was readable and one request otherwise; and when the response carried an
\* item for each requested address the returned map has an entry for every
\* address asked for.
C9_CacheFirst ==
  \A t \in Tasks :
    /\ op[t] = "meta" =>
         /\ calls[t] = 1
         /\ httpCount[t] <= 1
         /\ Range(req[t].addresses) = askedAtCall[t] \ readableAtCall[t]
         /\ Range(req[t].addresses) # {}
    /\ (op[t] = "none" /\ result[t].status # "none") =>
         /\ result[t].requests =
              (IF askedAtCall[t] \subseteq readableAtCall[t] THEN 0 ELSE 1)
         /\ (result[t].status = "returned" /\ result[t].complete) =>
              \A a \in askedAtCall[t] : result[t].value[a] # Undefined

\* A call given one address the cache could serve and one it could not has
\* returned after a single request that was answered in full.
C9_Witness ==
  \E t \in Tasks :
    /\ op[t] = "none"
    /\ result[t].status = "returned"
    /\ result[t].requests = 1
    /\ result[t].complete
    /\ readableAtCall[t] # {}
    /\ askedAtCall[t] \ readableAtCall[t] # {}

\* C10. With the shipped time-to-live of resource metadata (Infinity), no
\* getResourceMetadata call posts a request for an address that an earlier
\* call had resolved from the Gateway and written to the durable cache
\* before this call began.
C10_NoRefetch ==
  ttlCfg = Infinity =>
    \A t \in Tasks :
      op[t] = "meta" => Range(req[t].addresses) \cap writtenAtCall[t] = {}

\* C5. In every pagination loop the first request carries no cursor field
\* and each further request carries exactly the next_cursor of the response
\* before it; the loop goes on while pages with a non-null next_cursor
\* arrive and is left only on a page whose next_cursor is null (or absent),
\* one request having been made per page; and the items accumulated at
\* that point are those of all pages received, in page order.
C5_Pagination ==
  \A t \in Tasks :
    LET h == pageHist[t]
    IN  /\ (op[t] \in PagedOps /\ ~h.done /\ pc[t] \notin {"ok", "err"}) =>
             /\ req[t].endpoint = Endpoint(op[t])
             /\ h.requests = h.pages + 1
             /\ req[t].cursor = (IF h.pages = 0 THEN Undefined ELSE h.last)
             /\ h.pages > 0 => h.last \notin {Null, Undefined}
        /\ h.done =>
             /\ h.last \in {Null, Undefined}
             /\ h.requests = h.pages
             /\ h.items = PushAll(h.op, <<>>, h.served)

\* C11. A call of getAccountFungibles / getAccountNonFungibles that finds an
\* unexpired entry under its key in the session cache returns that entry,
\* and the step that makes the call posts no Gateway request and performs no
\* rate-limiter acquisition (rate limiter, requests in flight and their
\* counters are as before).
C11_CacheHit ==
  /\ [](\A t \in Tasks :
          (pageHist[t].hit /\ pageHist[t].op \in {"fungibles", "nfts"}) =>
            /\ op[t] = "none"
            /\ result[t].status = "returned"
            /\ result[t].value = pageHist[t].cached
            /\ result[t].requests = 0)
  /\ [][\A t \in Tasks :
          (runs'[t] # runs[t] /\ pageHist'[t].hit
             /\ pageHist'[t].op \in {"fungibles", "nfts"}) =>
            UNCHANGED <<rlVars, gwVars, histVars>>]_vars

\* A second call, after a first call that fetched from the Gateway and with
\* nothing invalidated since, has been served from the session cache.
C11_Witness ==
  \E t \in Tasks :
    /\ runs[t] = 2
    /\ pageHist[t].hit
    /\ pageHist[t].op \in {"fungibles", "nfts"}
    /\ result[t].status = "returned"
    /\ result[t].requests = 0
    /\ Len(result[t].value.items) > 0

\* The receipt succeeded and its last output carries a structured return.
HasReturn(receipt) ==
  /\ receipt \notin {Null, Undefined}
  /\ receipt.status = Str("Succeeded")
  /\ receipt.output # Undefined
  /\ Len(receipt.output.items) > 0
  /\ receipt.output.items[Len(receipt.output.items)] # Null
  /\ receipt.output.items[Len(receipt.output.items)].programmatic_json
       \notin {Null, Undefined}

\* The positional elements of that structured return.
PositionalOf(receipt) ==
  LET pj == receipt.output.items[Len(receipt.output.items)].programmatic_json
  IN  IF pj.elements # Undefined THEN pj.elements.items
      ELSE IF pj.fields # Undefined THEN pj.fields.items
      ELSE <<>>

\* What the i-th queried address is to be given by the elements e.
DecodedAt(e, i) ==
  IF i > Len(e) THEN Null
  ELSE IF e[i].variant_id = Str("1") \/ e[i].variant_name = Str("Some")
  THEN IF /\ e[i].fields # Undefined
          /\ Len(e[i].fields.items) > 0
          /\ e[i].fields.items[1].value # Str("")
       THEN e[i].fields.items[1].value
       ELSE Str("0")
  ELSE Null

C13_AllNull ==
  (parseOut.status = "returned" /\ ~HasReturn(parseIn.receipt)) =>
    \A a \in Addrs :
      parseOut.balances[a] =
        IF \E i \in 1..Len(parseIn.resourceAddresses) :
             parseIn.resourceAddresses[i] = a
        THEN Null ELSE Undefined

\* A succeeded receipt whose first output returns Some("9") and whose last
\* output returns nothing: both queried addresses are given null.
C13_Witness ==
  /\ parseOut.status = "returned"
  /\ parseIn.receipt \notin {Null, Undefined}
  /\ parseIn.receipt.status = Str("Succeeded")
  /\ parseIn.receipt.output =
       Arr(<<OtherOutput, [programmatic_json |-> Undefined]>>)
  /\ parseIn.resourceAddresses = <<resource_a, resource_b>>
  /\ parseOut.balances[resource_a] = Null
  /\ parseOut.balances[resource_b] = Null

\* The number of halves a decimal text denotes.
HalvesOf(text) == CHOOSE h \in Halves : Text(h) = text

\* The transaction just reconciled moved amount of resource r and the
\* snapshot held a balance of r before: the balance it holds now.
Bumped(r, delta) ==
  lastRecon.before[r] \notin {Undefined, Null} =>
    caveBalancesData[r] =
      Str(Text(Max(0, HalvesOf(lastRecon.before[r].s) + delta)))

\* C14: after a successful IN transaction by account A, the snapshot
\* balance of each resource moved that was known is max(0, b + amount),
\* and the session cache holds none of fungibles:A, nfts:A, cave_tokens.
C14_Deposit ==
  (lastRecon # NoRecon /\ lastRecon.mode = "in") =>
    /\ \A j \in 1..Len(lastRecon.resources) :
         Bumped(lastRecon.resources[j].resourceAddress,
                HalvesOf(lastRecon.resources[j].amount))
    /\ Held(data) \cap { FungiblesKey(lastRecon.account),
                         NftsKey(lastRecon.account), CaveTokensKey } = {}

\* The keys of the account resources of an account.
AccountKeys(account) == { FungiblesKey(account), NftsKey(account) }

\* C15: after a successful OUT transaction by account A, the snapshot
\* balance of each resource moved that was known is max(0, b - amount), the
\* session cache holds neither fungibles:A nor nfts:A, and the step leaves
\* cave_tokens, every other session key and every durable entry as they
\* were.
C15_WithdrawalFrame ==
  /\ []( (lastRecon # NoRecon /\ lastRecon.mode = "out") =>
           /\ \A j \in 1..Len(lastRecon.resources) :
                Bumped(lastRecon.resources[j].resourceAddress,
                       0 - HalvesOf(lastRecon.resources[j].amount))
           /\ Held(data) \cap AccountKeys(lastRecon.account) = {} )
  /\ [][ (lastRecon' # NoRecon /\ lastRecon'.mode = "out") =>
           /\ storage' = storage
           /\ \A k \in SessionKeys \ AccountKeys(lastRecon'.account) :
                data'[k] = data[k] ]_vars

\* C16: every balance the snapshot holds is a non-negative decimal,
\* whatever transactions were reconciled.
C16_NonNegative ==
  \A a \in Addrs :
    caveBalancesData[a] \notin {Undefined, Null} =>
      \E h \in Halves : caveBalancesData[a] = Str(Text(h))

\* An OUT of 3 reconciled on a snapshot balance of "0", which only an OUT
\* of 5 reconciled on the previewed balance "5" leaves: the balance stays
\* at "0".
C16_Witness ==
  /\ lastRecon # NoRecon
  /\ lastRecon.mode = "out"
  /\ lastRecon.resources = <<[resourceAddress |-> resource_a, amount |-> "3"]>>
  /\ lastRecon.before[resource_a] = Str("0")
  /\ caveBalancesData[resource_a] = Str("0")
  /\ \A i \in 1..MaxTx : txs[i] = Done

\* C17: a reconciliation gives no entry to a resource the snapshot had no
\* entry for, and changes the entry of no resource that was not moved.
C17_SkipIfUnknown ==
  lastRecon # NoRecon =>
    \A a \in Addrs :
      /\ lastRecon.before[a] = Undefined => caveBalancesData[a] = Undefined
      /\ (\A j \in 1..Len(lastRecon.resources) :
            lastRecon.resources[j].resourceAddress # a) =>
           caveBalancesData[a] = lastRecon.before[a]

\* An IN of resource_a reconciled on a snapshot that knows resource_b only.
C17_Witness ==
  /\ lastRecon # NoRecon
  /\ lastRecon.mode = "in"
  /\ lastRecon.resources[1].resourceAddress = resource_a
  /\ lastRecon.before[resource_a] = Undefined
  /\ lastRecon.before[resource_b] = Str("5")
  /\ caveBalancesData[resource_a] = Undefined
  /\ caveBalancesData[resource_b] = Str("5")

\* C18: a step that changes the active account empties the session cache
\* and resets the snapshot (caveBalancesData, hasLookedUp).
C18_AccountSwitch ==
  [][ currentAccount' # currentAccount =>
        /\ Held(data') = {}
        /\ caveBalancesData' = NoBalances
        /\ hasLookedUp' = FALSE ]_vars

\* C19: a resolver call whose Gateway request failed ends by throwing that
\* error to its caller: it returns no normal result.
C19_Propagation ==
  [][ \A t \in Tasks :
        (pc[t] = "err" /\ op[t] # "none" /\ op'[t] = "none") =>
          /\ result'[t].status = "threw"
          /\ result'[t].value = resp[t] ]_vars

\* C20: the errors of two failed gatewayFetch calls have different types
\* when one is a transport failure and the other a non-success status; the
\* message of the error of a non-success status is the message of the
\* decoded body when the body parses and has one, else "Gateway error: "
\* followed by the status code.
C20_TypedFailures ==
  /\ \A t, u \in Tasks :
       (pc[t] = "err" /\ pc[u] = "err" /\ resp[t].kind # resp[u].kind) =>
         resp[t].type # resp[u].type
  /\ \A t \in Tasks :
       (pc[t] = "err" /\ resp[t].kind = "status") =>
         LET body == resp[t].cause.body
             hasOne == /\ body # NotJson
                       /\ "message" \in DOMAIN body
                       /\ body.message # Str("")
         IN  resp[t].message =
               IF hasOne THEN body.message.s
               ELSE "Gateway error: " \o StatusText(resp[t].cause.status)

\* C21: a gatewayFetch call that has been answered has made one
\* acquisition and one HTTP request; a request starts only from a completed
\* acquisition, one at a time; and after a failure the call makes no
\* further acquisition and no further request.
C21_NoRetry ==
  /\ [](\A t \in Tasks :
          pc[t] \in {"ok", "err"} =>
            httpCount[t] = calls[t] /\ acqCount[t] = calls[t])
  /\ [][ \A t \in Tasks :
           /\ httpCount'[t] > httpCount[t] =>
                pc[t] = "acquired" /\ httpCount'[t] = httpCount[t] + 1
           /\ pc[t] = "err" =>
                /\ httpCount'[t] <= httpCount[t]
                /\ acqCount'[t] <= acqCount[t]
                /\ calls'[t] <= calls[t]
                /\ pc'[t] \in {"err", "idle"} ]_vars

\* The preview request of a previewTransaction call failed with a
\* non-success status after its status request had succeeded: two calls,
\* two acquisitions, two requests.
C21_Witness ==
  \E t \in Tasks :
    /\ pc[t] = "err"
    /\ resp[t].kind = "status"
    /\ req[t].endpoint = "/transaction/preview"
    /\ calls[t] = 2 /\ acqCount[t] = 2 /\ httpCount[t] = 2

\* C22: no entry of the durable cache carries the shortened address of its
\* resource as the name (an explicit name is never the shortened address,
\* so such a name can only be the display fallback).
C22_FallbackNotCached ==
  \A a \in Addrs :
    LET text == storage[StorageKey(ResourceKey(a))]
    IN  (text # Absent /\ text.kind = "json") =>
          text.value.v.name # Str(ShortenAddress(a, 15, 6))

\* C26: the divisibility of every record a getResourceMetadata call builds
\* from a response item is the item's declared divisibility when the item's
\* details are of type FungibleResource and declare one (0 included), and
\* 18 otherwise.
C26_Divisibility ==
  [][ \A t \in Tasks :
        (op[t] = "meta" /\ pc[t] = "ok" /\ op'[t] = "none") =>
          \A i \in 1..Len(resp[t].items) :
            LET item == resp[t].items[i]
                declared ==
                  /\ item.details # Undefined
                  /\ item.details.type = Str("FungibleResource")
                  /\ item.details.divisibility.tag = "number"
            IN  result'[t].value[item.address].v.divisibility =
                  IF declared THEN item.details.divisibility ELSE Num(18) ]_vars

\* A call has returned the record of a fungible resource of divisibility 0.
C26_Witness ==
  \E t \in Tasks :
    /\ result[t].status = "returned"
    /\ result[t].requests = 1
    /\ result[t].value[resource_a] # Undefined
    /\ result[t].value[resource_a].v.entityType = Str("FungibleResource")
    /\ result[t].value[resource_a].v.divisibility = Num(0)

\* C23: a getAllCaveTokens call that left its pagination loop returns the
\* values of the keys received, on any page, whose encoding is a Reference
\* of type name ResourceAddress with a non-empty value, each once, and has
\* stored that list in the session cache under cave_tokens; a call that finds
\* an unexpired entry there returns it, and the step that makes the call
\* posts no request and performs no acquisition.
C23_CaveTokens ==
  /\ [](\A t \in Tasks :
          LET h == pageHist[t]
              accepted ==
                { h.served[i].value : i \in
                    { j \in 1..Len(h.served) :
                        /\ h.served[j] # Undefined
                        /\ h.served[j].kind = "Reference"
                        /\ h.served[j].type_name = "ResourceAddress"
                        /\ h.served[j].value # "" } }
          IN  /\ (h.op = "caveTokens" /\ h.done) =>
                   /\ op[t] = "none"
                   /\ result[t].status = "returned"
                   /\ Range(result[t].value.items) = accepted
                   /\ Len(result[t].value.items) = Cardinality(accepted)
              /\ (h.op = "caveTokens" /\ h.hit) =>
                   /\ op[t] = "none"
                   /\ result[t].status = "returned"
                   /\ result[t].value = h.cached
                   /\ result[t].requests = 0)
  /\ [][ \A t \in Tasks :
           /\ (pageHist'[t].op = "caveTokens" /\ pageHist'[t].done
                 /\ ~pageHist[t].done) =>
                /\ data'[CaveTokensKey] # NoItem
                /\ data'[CaveTokensKey].value = result'[t].value
           /\ (runs'[t] # runs[t] /\ pageHist'[t].op = "caveTokens"
                 /\ pageHist'[t].hit) =>
                UNCHANGED <<rlVars, gwVars, histVars>> ]_vars

\* A call has returned one address from three pages: the same resource key
\* on two pages and a key of another shape between them.
C23_Witness ==
  \E t \in Tasks :
    LET h == pageHist[t]
    IN  /\ h.op = "caveTokens" /\ h.done
        /\ h.pages = 3
        /\ Len(h.served) = 3
        /\ h.served[1] = h.served[3]
        /\ h.served[1] # Undefined
        /\ h.served[1].type_name = "ResourceAddress"
        /\ h.served[1].value = resource_a
        /\ h.served[2] # Undefined
        /\ h.served[2].type_name = "ComponentAddress"
        /\ result[t].value = Arr(<<resource_a>>)
        /\ data[CaveTokensKey] # NoItem
        /\ data[CaveTokensKey].value = Arr(<<resource_a>>)

\* C24: a previewTransaction call posts the status request first and the
\* preview request second, the preview request only in the step that
\* receives the status response and with the epoch window [e, e + 2) of
\* that response's epoch e; a call that returns has made exactly these two
\* requests; and a call whose status request failed ends without a preview
\* request.
C24_PreviewProtocol ==
  /\ [](\A t \in Tasks :
          op[t] = "preview" =>
            /\ calls[t] \in {1, 2}
            /\ req[t].endpoint = (IF calls[t] = 1 THEN "/status/gateway-status"
                                  ELSE "/transaction/preview"))
  /\ [][ \A t \in Tasks :
           /\ (req'[t].endpoint = "/transaction/preview"
                 /\ req[t].endpoint # "/transaction/preview") =>
                /\ req[t].endpoint = "/status/gateway-status"
                /\ pc[t] = "ok"
                /\ httpCount[t] = 1
                /\ req'[t].start_epoch_inclusive = resp[t].epoch
                /\ req'[t].end_epoch_exclusive = resp[t].epoch + 2
           /\ (op[t] = "preview" /\ op'[t] = "none" /\ pc[t] = "ok") =>
                /\ httpCount[t] = 2
                /\ result'[t].status = "returned"
           /\ (op[t] = "preview" /\ pc[t] = "err"
                 /\ req[t].endpoint = "/status/gateway-status") =>
                /\ httpCount[t] = 1
                /\ req'[t].endpoint # "/transaction/preview"
                /\ httpCount'[t] <= 1
                /\ op'[t] = "none" => result'[t].status = "threw" ]_vars

\* The preview request of a call is in flight with the window [1, 3) after
\* a status response of epoch 1.
C24_Witness ==
  \E t \in Tasks :
    /\ op[t] = "preview"
    /\ pc[t] = "fetching"
    /\ httpCount[t] = 2
    /\ req[t].endpoint = "/transaction/preview"
    /\ req[t].start_epoch_inclusive = 1
    /\ req[t].end_epoch_exclusive = 3

\* C25: the step of getAccountFungibles / getAccountNonFungibles that
\* receives a page posts the request of the next page, with the cursor
\* received, when next_cursor is neither null nor absent, and leaves the
\* loop only when it is null or absent; the session entry of the call is not
\* written while the loop goes on.
C25_NullSentinel ==
  [][ \A t \in Tasks :
        (op[t] \in {"fungibles", "nfts"} /\ pc[t] = "ok"
           /\ req[t].endpoint = Endpoint(op[t])
           /\ pageHist'[t] # pageHist[t]) =>
          IF resp[t].next_cursor \notin {Null, Undefined}
          THEN /\ ~pageHist'[t].done
               /\ req'[t].endpoint = Endpoint(op[t])
               /\ req'[t].cursor = resp[t].next_cursor
               /\ data'[cacheKey[t]] = data[cacheKey[t]]
          ELSE /\ pageHist'[t].done
               /\ req'[t].endpoint # Endpoint(op[t]) ]_vars

\* C27: a getAccountFungibles / getAccountNonFungibles call that missed the
\* session cache posts the metadata request only after its pagination loop
\* is left; the session entry of an account's key is written only by the
\* returning step of a call for that key; and a call returns in the step
\* that, the metadata having arrived, writes the merged result under its
\* key: a get of that key right after the return yields the value returned.
C27_MissOrdering ==
  /\ [](\A t \in Tasks :
          (op[t] \in {"fungibles", "nfts"}
             /\ req[t].endpoint = "/state/entity/details") => pageHist[t].done)
  /\ [][ \A k \in SessionKeys \ {CaveTokensKey} :
           (data'[k] # data[k] /\ data'[k] # NoItem) =>
             \E t \in Tasks :
               /\ op[t] \in {"fungibles", "nfts"}
               /\ cacheKey[t] = k
               /\ op'[t] = "none"
               /\ pageHist'[t].done
               /\ result'[t].status = "returned"
               /\ data'[k].value = result'[t].value ]_vars
  /\ [][ \A t \in Tasks :
           (op[t] \in {"fungibles", "nfts"} /\ op'[t] = "none"
              /\ result'[t].status = "returned") =>
             /\ pageHist'[t].done
             /\ pc[t] = "ok"
             /\ Len(result'[t].value.items) = Len(pageHist'[t].items)
             /\ \A i \in 1..Len(pageHist'[t].items) :
                  result'[t].value.items[i].item = pageHist'[t].items[i]
             /\ data'[cacheKey[t]] # NoItem
             /\ SessionGet(data', cacheKey[t], now').value = result'[t].value ]_vars

\* A call that received two pages and then the metadata has returned, and
\* the session cache holds the value returned under the key of the call.
C27_Witness ==
  \E t \in Tasks, account \in Accounts :
    LET h == pageHist[t]
    IN  /\ h.op \in {"fungibles", "nfts"}
        /\ h.done /\ h.pages = 2
        /\ op[t] = "none"
        /\ result[t].status = "returned"
        /\ result[t].requests = 3
        /\ Len(result[t].value.items) = 2
        /\ data[CacheKeyOf(h.op, account)] # NoItem
        /\ SessionGet(data, CacheKeyOf(h.op, account), now).value = result[t].value

\* C28: the address list of the batch request a holdings resolver posts for
\* the metadata holds each resource address at most once.
C28_DistinctBatch ==
  \A t \in Tasks :
    (op[t] \in {"fungibles", "nfts"}
       /\ req[t].endpoint = "/state/entity/details") =>
      Cardinality(Range(req[t].addresses)) = Len(req[t].addresses)

\* The (resource, vault) pairs of a non-fungible listing, in listing order.
RECURSIVE VaultPairs(_)
VaultPairs(listing) ==
  IF listing = <<>> THEN <<>>
  ELSE LET last == listing[Len(listing)]
           vaults == IF last.vaults = Undefined THEN <<>> ELSE last.vaults.items
       IN  VaultPairs(SubSeq(listing, 1, Len(listing) - 1))
             \o [k \in 1..Len(vaults) |->
                   [resourceAddress |-> last.resource_address,
                    vaultAddress |-> vaults[k]]]

\* C29: the records of a getAccountNonFungibles call are the (resource,
\* vault) pairs of the pages received, in listing order, one record each,
\* and the result returned has one record for each of them.
C29_Flattening ==
  \A t \in Tasks :
    LET h == pageHist[t]
    IN  (h.op = "nfts" /\ h.done) =>
          /\ h.items = VaultPairs(h.served)
          /\ (op[t] = "none" /\ result[t].status = "returned") =>
               /\ Len(result[t].value.items) = Len(VaultPairs(h.served))
               /\ \A i \in 1..Len(VaultPairs(h.served)) :
                    result[t].value.items[i].item = VaultPairs(h.served)[i]

\* Two pages, of a resource with two vaults and of a resource without
\* vaults, have given two records, both of the first resource.
C29_Witness ==
  \E t \in Tasks :
    LET h == pageHist[t]
    IN  /\ h.op = "nfts" /\ h.done
        /\ Len(h.served) = 2
        /\ h.served[1].vaults = Arr(<<"vault_1", "vault_2">>)
        /\ h.served[2].vaults = Undefined
        /\ h.served[1].resource_address # h.served[2].resource_address
        /\ op[t] = "none"
        /\ result[t].status = "returned"
        /\ Len(result[t].value.items) = 2
        /\ result[t].value.items[2].item =
             [resourceAddress |-> h.served[1].resource_address,
              vaultAddress |-> "vault_2"]

\* C30: parseBalancesFromReceipt returns for every receipt and address
\* list; the keys of the map returned are the queried addresses, each
\* mapped to null or to a string; and when the decoding stops at a position
\* whose element cannot be read, the entries decoded at the positions before
\* it are kept.
C30_Total ==
  parseOut.status = "returned" =>
    /\ { a \in Addrs : parseOut.balances[a] # Undefined }
         = Range(parseIn.resourceAddresses)
    /\ \A a \in Range(parseIn.resourceAddresses) :
         parseOut.balances[a] = Null \/ parseOut.balances[a].tag = "string"
    /\ ( /\ HasReturn(parseIn.receipt)
         /\ Distinct(parseIn.resourceAddresses) = parseIn.resourceAddresses ) =>
         LET e == PositionalOf(parseIn.receipt)
         IN  \A i \in 1..Len(parseIn.resourceAddresses) :
               (i <= Len(e) /\ \A j \in 1..i : e[j] # Null) =>
                 parseOut.balances[parseIn.resourceAddresses[i]] = DecodedAt(e, i)

\* C31: while the pagination loop of a resolver call runs, the call has
\* made exactly one gatewayFetch call more than it has received pages, so at
\* most one request of the loop is outstanding; and the request of the next
\* page is posted only in the step that receives the response of the page
\* before it, whose cursor it carries and whose items are appended to the
\* pages received so far, whatever the other tasks do.
C31_Sequential ==
  /\ [](\A t \in Tasks :
          (op[t] \in PagedOps /\ req[t].endpoint = Endpoint(op[t])) =>
            /\ calls[t] = pageHist[t].pages + 1
            /\ pageHist[t].requests = calls[t]
            /\ httpCount[t] \in {calls[t] - 1, calls[t]}
            /\ (pc[t] \in {"ok", "err"} => httpCount[t] = calls[t]))
  /\ [][ \A t \in Tasks :
           (op[t] \in PagedOps /\ calls'[t] = calls[t] + 1
              /\ req'[t].endpoint = Endpoint(op[t])) =>
             /\ pc[t] = "ok"
             /\ httpCount[t] = calls[t]
             /\ pageHist'[t].pages = calls[t]
             /\ req'[t].cursor = resp[t].next_cursor
             /\ pageHist'[t].served = pageHist[t].served \o resp[t].items ]_vars

\* The request of the second page of a loop is with the Gateway while the
\* request of another task is with the Gateway too.
C31_Witness ==
  \E t \in Tasks, u \in Tasks :
    /\ t # u
    /\ op[t] \in PagedOps
    /\ req[t].endpoint = Endpoint(op[t])
    /\ pageHist[t].pages = 1
    /\ calls[t] = 2
    /\ Truthy(req[t].cursor)
    /\ pc[t] = "fetching"
    /\ pc[u] = "fetching"

\* C32: a step in which the active account changes or the session cache is
\* cleared from outside leaves every resolver call where it stands, with its
\* request and its locals; and a resolver call that returns the result of a
\* completed fetch has written it to the session cache under the key it was
\* called for, whatever account is active at that instant.
C32_NoCancellation ==
  /\ [][ (currentAccount' # currentAccount \/ allAccounts' # allAccounts) =>
           UNCHANGED <<op, pc, req, resp, cacheKey, cursor, items, pageHist>> ]_vars
  /\ [][ \A t \in Tasks :
           (op[t] \in PagedOps /\ op'[t] = "none"
              /\ result'[t].status = "returned" /\ result'[t].complete) =>
             /\ req[t].endpoint = Endpoint(op[t]) =>
                  cacheKey[t] = CacheKeyOf(op[t], req[t].address)
             /\ data'[cacheKey[t]] # NoItem
             /\ data'[cacheKey[t]].value = result'[t].value ]_vars

\* The session cache holds the holdings of an account that is shared no
\* longer while the other account is the active one: a call made for the
\* first account has written them after the switch, which cleared the cache.
C32_Witness ==
  \E a \in Accounts, t \in Tasks :
    /\ currentAccount \notin {Null, Obj(a)}
    /\ a \notin Range(allAccounts)
    /\ pageHist[t].op \in {"fungibles", "nfts"}
    /\ data[CacheKeyOf(pageHist[t].op, a)] # NoItem
    /\ op[t] = "none"
    /\ result[t].status = "returned"
    /\ data[CacheKeyOf(pageHist[t].op, a)].value = result[t].value

\* C33: once a successful transaction has been reconciled and the session
\* keys of the active account removed, a getAccountFungibles or
\* getAccountNonFungibles call writes an entry under one of the removed keys
\* only if it received its first page after the transaction was submitted.
C33_InvalidationEffective ==
  [][ \A t \in Tasks :
        ( /\ op[t] \in {"fungibles", "nfts"}
          /\ op'[t] = "none"
          /\ data'[cacheKey[t]] # NoItem
          /\ data'[cacheKey[t]] # data[cacheKey[t]]
          /\ lastRecon # NoRecon
          /\ lastRecon.active # Null
          /\ lastRecon.active.v = lastRecon.account
          /\ cacheKey[t] \in Invalidated(lastRecon.mode, lastRecon.active.v) ) =>
          \A i \in DOMAIN txs : txs[i] = Done => i \in pageHist'[t].sent ]_vars

\* C34: a handleTransaction call that ends without a reconciliation (the
\* wallet returned an error, or the manifest or the submission threw) leaves
\* the snapshot balances, the session cache and the modal as they were; and
\* a transaction is handed to the wallet only when an account is active, an
\* NFT is selected and the resource list is not empty, for that account and
\* those resources.
C34_OnlyOnSuccess ==
  /\ [][ \A i \in DOMAIN txs :
           (txs[i] \notin {NoCall, Done} /\ txs'[i] = Done
              /\ lastRecon' = NoRecon) =>
             /\ caveBalancesData' = caveBalancesData
             /\ data' = data
             /\ storage' = storage
             /\ shown' = shown ]_vars
  /\ [][ \A i \in DOMAIN txs :
           (txs[i] = NoCall /\ txs'[i] # NoCall) =>
             /\ currentAccount # Null
             /\ selectedNftData # Null
             /\ Len(selectedResourcesList) > 0
             /\ txs'[i].account = currentAccount.v
             /\ txs'[i].resources = selectedResourcesList
             /\ txs'[i].mode \in {"in", "out"} ]_vars
  /\ [][ (mode \in {"in", "out"}
            /\ (currentAccount = Null \/ selectedNftData = Null
                  \/ Len(selectedResourcesList) = 0)) =>
           \A i \in DOMAIN txs : txs[i] = NoCall => txs'[i] = NoCall ]_vars

\* A transaction has ended, the modal still shows the resource that was
\* submitted, the snapshot balance of the resource is the one the lookup
\* gave and the session cache holds the holdings of the account, as after a
\* transaction the wallet refused.
C34_Witness ==
  \E i \in DOMAIN txs :
    /\ txs[i] = Done
    /\ lastRecon = NoRecon
    /\ shown /\ mode = "out" /\ ~submitDisabled
    /\ currentAccount # Null
    /\ Len(selectedResourcesList) = 1
    /\ selectedResourcesList[1].amount = "3"
    /\ caveBalancesData[selectedResourcesList[1].resourceAddress] = Str("5")
    /\ data[NftsKey(currentAccount.v)] # NoItem

\* C35: when the reconciliation of a successful transaction bumps the
\* snapshot balance of a resource, the snapshot was previewed for the NFT the
\* transaction was submitted for.
C35_SnapshotOfNft ==
  lastRecon # NoRecon =>
    \A j \in 1..Len(lastRecon.resources) :
      lastRecon.before[lastRecon.resources[j].resourceAddress]
          \notin {Undefined, Null} =>
        previewedFor = lastRecon.nft

\* C36: a reconciliation, IN or OUT, leaves at null every snapshot entry
\* that was null, and changes an entry only if it held a balance.
C36_NullUntouched ==
  lastRecon # NoRecon =>
    \A a \in Addrs :
      /\ lastRecon.before[a] = Null => caveBalancesData[a] = Null
      /\ caveBalancesData[a] # lastRecon.before[a] =>
           /\ lastRecon.before[a].tag = "string"
           /\ \E j \in 1..Len(lastRecon.resources) :
                lastRecon.resources[j].resourceAddress = a

\* An IN of 3 of resource_a reconciled on a snapshot whose preview reported
\* null for resource_a: the entry is still null.
C36_Witness ==
  /\ lastRecon # NoRecon
  /\ lastRecon.mode = "in"
  /\ lastRecon.resources = <<[resourceAddress |-> resource_a, amount |-> "3"]>>
  /\ hasLookedUp
  /\ lastRecon.before[resource_a] = Null
  /\ caveBalancesData[resource_a] = Null

\* C37: the step in which a paginated resolver ends because a request of
\* its loop or its metadata request failed writes nothing to the session
\* cache or the durable cache and drops the records accumulated; and every
\* call that finds no unexpired entry under its key posts the request of the
\* first page, without cursor and with no record accumulated.
C37_FailureWritesNothing ==
  /\ [][ \A t \in Tasks :
           (op[t] \in PagedOps /\ pc[t] = "err" /\ op'[t] = "none") =>
             /\ data' = data
             /\ storage' = storage
             /\ items'[t] = <<>>
             /\ cursor'[t] = Null
             /\ ~result'[t].complete ]_vars
  /\ [][ \A t \in Tasks :
           (op[t] = "none" /\ runs'[t] = runs[t] + 1
              /\ pageHist'[t].op \in PagedOps /\ ~pageHist'[t].hit) =>
             /\ op'[t] = pageHist'[t].op
             /\ req'[t].endpoint = Endpoint(op'[t])
             /\ req'[t].cursor = Undefined
             /\ items'[t] = <<>>
             /\ pageHist'[t].pages = 0
             /\ pageHist'[t].requests = 1 ]_vars
  /\ [](\A t \in Tasks :
          (pageHist[t].op \in PagedOps /\ pageHist[t].hit) =>
            pageHist[t].cached # Null)

\* The second call of a task is at its first request, the session cache
\* holding nothing: its first call, which missed the cache too, ended on a
\* failed request.
C37_Witness ==
  \E t \in Tasks :
    /\ runs[t] = 2
    /\ op[t] \in {"fungibles", "nfts"}
    /\ pageHist[t].pages = 0
    /\ pageHist[t].requests = 1
    /\ ~pageHist[t].hit
    /\ req[t].cursor = Undefined
    /\ Held(data) = {}
    /\ httpCount[t] = 1


\* C38. In every reachable state 0 <= tokens <= maxRequests, whatever the
\* interleaving of the callers and of the timers; tokens changes only in a
\* run of acquire(); a run that completes its acquisition takes exactly one
\* token from a counter that is above 0 when `this.tokens--` executes (the
\* counter as it was, or maxRequests when the same run reset the window
\* first), and a run that finds the counter at 0 suspends without taking
\* any.
C38_TokenCounter ==
  /\ [](tokens \in 0..maxRequests)
  /\ [][ /\ \A t \in Tasks :
              (pc[t] # "acquired" /\ pc'[t] = "acquired") =>
                 LET reset == ResetDue(now - lastRefill)
                     tk    == IF reset THEN maxRequests ELSE tokens
                 IN  tk > 0 /\ tokens' = tk - 1
         /\ tokens' < tokens =>
              \E t \in Tasks : pc[t] # "acquired" /\ pc'[t] = "acquired"
         /\ tokens' # tokens =>
              \E t \in Tasks : pc[t] \in {"idle", "sleep", "ok", "err"}
                               /\ pc'[t] \in {"acquired", "sleep"}
         /\ \A t \in Tasks :
              (pc[t] # "sleep" /\ pc'[t] = "sleep") => tokens' = 0 ]_vars

\* A caller that had been suspended at tokens = 0 took the token of the
\* window its retry opened, and the other caller, arriving in that window,
\* found the counter at 0 and is suspended.
C38_Witness ==
  \E t, u \in Tasks :
    /\ pc[t] = "acquired" /\ slept[t]
    /\ pc[u] = "sleep"
    /\ tokens = 0
    /\ acqCount[u] >= 1


RECURSIVE LoggedUpTo(_)
LoggedUpTo(k) == IF k < 0 THEN 0 ELSE recent.at[k] + LoggedUpTo(k - 1)

\* C39. A reset sets lastRefill to the current instant, at least windowMs
\* after the reset point before it (the load of the module counting as the
\* first), and it is the only write of lastRefill; and the acquisitions
\* completed in any windowMs + 1 consecutive instants, the closed interval
\* [now - windowMs, now], number at most 2 * maxRequests.
C39_WindowSpacing ==
  /\ [][ lastRefill' # lastRefill =>
           /\ lastRefill' = now
           /\ lastRefill' - lastRefill >= windowMs
           /\ \E t \in Tasks : pc'[t] \in {"acquired", "sleep"} /\ pc'[t] # pc[t] ]_vars
  /\ [](LoggedUpTo(windowMs) <= 2 * maxRequests)

\* Two windows' budget went through within windowMs + 1 instants: the
\* budget of the window before the last reset and, the reset made at this
\* very instant, the budget of the window it opened.
C39_Witness ==
  /\ LoggedUpTo(windowMs) = 2 * maxRequests
  /\ recent.at[0] = maxRequests
  /\ lastRefill = now
  /\ lastRefill > 1

====
